---- MODULE Spec2Model ----
(***************************************************************************)
(* Model of the replay orchestrator (replayer.Start / replayer.RunTestSet) *)
(* and of the root-context helpers (utils.NewCtx / utils.Stop).            *)
(*                                                                         *)
(* Tasks of one RunTestSet call: the main task (test loop), the            *)
(* application task (runTestSetErrGrp.Go) and the error watcher            *)
(* goroutine.  Contexts, channels and tasks are locals of the call; tasks  *)
(* a returned call left unfinished share nothing with the next call and    *)
(* are only counted.                                                       *)
(***************************************************************************)
EXTENDS Integers, Sequences, FiniteSets, TLC

\* ---------------------------------------------------------------- bounds
NumSets == 2
MaxCases == 2
MaxStops == 4
\* timestamps are 0 (the zero time.Time) .. MaxTs
MaxTs == 3
\* length of the mock list given to FilterTcsMocks
MaxMocks == 2
\* test-set names carry the numbers 1..MaxNum
MaxNum == 10
\* number of test sets in completeTestReport
MaxNames == 3
\* the goroutines calling GetOrCreate
Callers == {"g1", "g2"}
\* connection ids are 1..NumConns
NumConns == 2
\* trackers NewTracker may make in a run
MaxTrackers == 2
\* calls of ProcessActiveTrackers in a run
MaxSweeps == 2
\* request payloads of mongo messages are 1..NumPayloads
NumPayloads == 3
\* requests in one mongo message
MaxRequests == 2
\* calls of recordMessage in a run
MaxMessages == 2
\* values of one header key
MaxValues == 2
\* elements of a JSON array
MaxElems == 2
\* frames one transferFrame task passes on
MaxFrames == 2
\* mongo connections calling recordMessage concurrently are 1..NumRecorders
NumRecorders == 2


\* ------------------------------------------------- models.TestSetStatus
TestSetStatusRunning == "RUNNING"
TestSetStatusPassed == "PASSED"
TestSetStatusFailed == "FAILED"
TestSetStatusAppHalted == "APP_HALTED"
TestSetStatusInternalErr == "INTERNAL_ERR"
TestSetStatusFaultUserApp == "APP_FAULT"
TestSetStatusUserAbort == "USER_ABORT"

\* ---------------------------------------------------- models.AppErrorType
ErrCommandError == "ErrCommandError"
ErrUnExpected == "ErrUnExpected"
ErrAppStopped == "ErrAppStopped"
ErrInternal == "ErrInternal"
ErrCtxCanceled == "ErrCtxCanceled"

\* error kinds instrumentation.Run can return without its context cancelled
AppFailures == {ErrCommandError, ErrUnExpected, ErrAppStopped, ErrInternal}

\* outcome of a call into a store or into the instrumentation that is given
\* a context: it succeeds or fails on its own, and it may fail with the
\* context's error once that context is done
CallOutcomes(done) == {"ok", "err"} \cup (IF done THEN {"canceled"} ELSE {})

VARIABLES
  \* utils/ctx.go
  ctxCreated,      \* NewCtx has run
  cancelSet,       \* package variable cancel is non-nil
  ctxDone,         \* the root context is cancelled
  cancelCount,     \* number of live -> cancelled transitions of the root context
  sigs,            \* signal goroutine of NewCtx: "off" | "waiting" | "done"
  stopLog,         \* calls of Stop so far: <<[logger, reason, ret]>>
  cancelledInSet,  \* observation: the test set whose RunTestSet call was running
                   \* when the root context was cancelled, 0 if none was
  \* replayer.Start
  startPc,
  stopReason,
  testSetResult,
  testRunResult,
  abortTestRun,
  setIdx,          \* index of the test set of the current/last RunTestSet call
  setStatuses,     \* what each RunTestSet call returned: <<[status, err]>>
  summary,         \* << >> or <<testRunResult>> once printSummary was called
  startRet,        \* "none" | "nil" | "err"
  \* replayer.RunTestSet, main task of the current call
  pc,
  serveTest,       \* argument serveTest of the call
  n,               \* len(testCases)
  i,               \* 1-based index of the test case of the current iteration
  testSetStatus,
  success,
  failure,
  testPass,
  testResultNil,
  initReport,      \* the initial (running) report was inserted
  finalReport,     \* << >> or <<[report, out]>>: the final InsertReport call
  rtsRet,          \* << >> or <<[status, err]>> returned by the call
  \* collaborators as seen from the current call
  mocksSet,        \* SetMocks calls made by the test loop
  mockWindow,      \* the test case whose window the last SetMocks installed,
                   \* 0 for the window of the whole set
  simulated,       \* SimulateRequest calls made by the test loop
  persisted,       \* InsertTestCaseResult calls that succeeded
  \* contexts, channels and the two other tasks of the current call
  runCancelled,    \* runTestSetCtxCancel was called
  loopCancelled,   \* testLoopCtxCancel was called
  chanClosed,      \* exitLoopChan was closed
  mockErr,         \* mockErrChan: "none" | "pending" | "taken"
  appPc,           \* "none" | "running" | "sending" | "done"
  appErr,          \* value returned by RunApplication, "none" before
  watcherPc,       \* "none" | "select" | "sending" | "cancel" | "done" | "panicked"
  testSetStatusByErrChan,
  \* observations used to state the properties
  firstSignal,     \* the signal the watcher's select took, "none" before
  sigRecv,         \* the test loop has received on exitLoopChan
  crashAt,         \* completed iterations when the application failed, -1 if not
  appFailed,       \* the application has failed during a test set of this run
  \* FilterTcsMocks
  tcs,             \* << >> or <<tc>>: the test case of the call
  mocks,           \* the argument m: the mocks in recording order
  filtered,        \* << >> or <<list>>: the returned list
  \* printSummary
  testSuiteNames,  \* the keys of completeTestReport as the range loop gave them
  sortedNames,     \* << >> or <<list>>: testSuiteNames after sort.SliceStable
  \* conn.Factory
  connections,     \* factory.connections: ConnID -> tracker
  mutex,           \* the goroutines holding factory.mutex
  nextTracker,     \* identity of the next tracker NewTracker makes
  gPc,             \* per caller of GetOrCreate: "idle" | "locked" | "insert"
  gArg,            \* per caller: the connectionID of its call, 0 outside a call
  gRet,            \* << >> or <<[conn, tracker, ok]>>: the last return of GetOrCreate
  sweepPc,         \* ProcessActiveTrackers: "idle" | "range" | "send"
  toVisit,         \* the ConnIDs the range loop has not yielded yet
  trackersToDelete,
  cur,             \* ConnID of the current iteration, 0 outside the loop
  sweepCtxDone,    \* the context given to ProcessActiveTrackers is cancelled
  emitted,         \* tracker -> number of TestCases received from the channel
  sweeps,          \* calls of ProcessActiveTrackers so far
  \* mongo: recordMessage
  configRequests,  \* the package variable configRequests
  seenHeartbeats,  \* the request lists of the heartbeats recordMessage was given
  lastMessage,     \* << >> or <<[requests, heartbeat, first, mock]>>: the last call
  messages,        \* calls of recordMessage so far
  \* CompareHeaders
  hdrExpected,     \* h1: header key -> list of values
  hdrActual,       \* h2
  hdrNoise,        \* noise: key -> list of regular expressions
  hdrResult,       \* << >> or <<[match, res]>>: what the call returned and left in *res
  \* Flatten
  flatInput,       \* j, a decoded JSON value
  flatOutput,      \* << >> or <<the map Flatten returned>>
  \* encodeGrpc
  grpcPc,          \* position of encodeGrpc: "idle", "go1", "go2", "return", "returned"
  grpcRet,         \* what encodeGrpc returned: "none", "nil", "err"
  destConn,        \* "open" or "closed"
  prefaceSent,     \* reqBuf was written to destConn
  transfers,       \* task -> [st, frames, err]: the two transferFrame tasks of g
  \* recordMessage called by several connections
  recorders,       \* connection -> the locals of its call of recordMessage
  sentMocks        \* the mocks sent on the mocks channel: <<[by, requests, type]>>

ctxVars == <<ctxCreated, cancelSet, ctxDone, cancelCount, sigs, stopLog,
             cancelledInSet>>
startVars == <<startPc, stopReason, testSetResult, testRunResult, abortTestRun,
               setIdx, setStatuses, summary, startRet>>
mainVars == <<pc, n, i, testSetStatus, success, failure, testPass, testResultNil,
              initReport, finalReport, rtsRet>>
collabVars == <<mocksSet, mockWindow, simulated, persisted>>
taskVars == <<runCancelled, loopCancelled, chanClosed, mockErr, appPc, appErr,
              watcherPc, testSetStatusByErrChan>>
obsVars == <<firstSignal, sigRecv, crashAt, appFailed>>
filterVars == <<tcs, mocks, filtered>>
sortVars == <<testSuiteNames, sortedNames>>
factoryVars == <<connections, mutex, nextTracker, gPc, gArg, gRet, sweepPc,
                 toVisit, trackersToDelete, cur, sweepCtxDone, emitted, sweeps>>
mongoVars == <<configRequests, seenHeartbeats, lastMessage, messages>>
headerVars == <<hdrExpected, hdrActual, hdrNoise, hdrResult>>
flattenVars == <<flatInput, flatOutput>>
grpcVars == <<grpcPc, grpcRet, destConn, prefaceSent, transfers>>
recorderVars == <<recorders, sentMocks>>
otherVars == <<filterVars, sortVars, factoryVars, mongoVars, headerVars, flattenVars,
               grpcVars, recorderVars>>
replayVars == <<ctxVars, startVars, mainVars, collabVars, taskVars, obsVars,
               serveTest>>
nonCtxVars == <<startVars, mainVars, collabVars, taskVars, obsVars, serveTest,
                otherVars>>
vars == <<ctxVars, startVars, mainVars, collabVars, taskVars, obsVars, serveTest,
          otherVars>>
nonFilterVars == <<replayVars, sortVars, factoryVars, mongoVars, headerVars, flattenVars,
  grpcVars, recorderVars>>
nonSortVars == <<replayVars, filterVars, factoryVars, mongoVars, headerVars, flattenVars,
  grpcVars, recorderVars>>
nonFactoryVars == <<replayVars, filterVars, sortVars, mongoVars, headerVars, flattenVars,
  grpcVars, recorderVars>>
nonMongoVars == <<replayVars, filterVars, sortVars, factoryVars, headerVars, flattenVars,
  grpcVars, recorderVars>>
nonHeaderVars == <<replayVars, filterVars, sortVars, factoryVars, mongoVars, flattenVars,
  grpcVars, recorderVars>>
nonFlattenVars == <<replayVars, filterVars, sortVars, factoryVars, mongoVars, headerVars,
  grpcVars, recorderVars>>
nonGrpcVars == <<replayVars, filterVars, sortVars, factoryVars, mongoVars, headerVars,
  flattenVars, recorderVars>>
nonRecorderVars == <<replayVars, filterVars, sortVars, factoryVars, headerVars,
  flattenVars, grpcVars>>

\* ------------------------------------------------------------ contexts
\* ctx of Start / RunTestSet: derived from the root context
CtxDone == ctxDone
\* runTestSetCtx: child of ctx, cancelled by runTestSetCtxCancel
RunTestSetCtxDone == ctxDone \/ runCancelled
\* testLoopCtx: child of runTestSetCtx, cancelled by testLoopCtxCancel
TestLoopCtxDone == RunTestSetCtxDone \/ loopCancelled

\* ------------------------------------------------------- utils/ctx.go
\* the CancelFunc of context.WithCancel: the first call cancels, later calls
\* do nothing
cancel ==
  /\ ctxDone' = TRUE
  /\ cancelCount' = IF ctxDone THEN cancelCount ELSE cancelCount + 1
  /\ cancelledInSet' = IF ~ctxDone /\ startPc = "inSet" /\ pc # "returned"
                         THEN setIdx ELSE cancelledInSet

\* Stop without the check of the reason
StopOutcome_AnyReason(loggerSet, cSet, reason) ==
  IF ~loggerSet THEN "logger is not set"
  ELSE IF ~cSet THEN "cancel function is not set"
  ELSE "nil"

StopOutcome(loggerSet, cSet, reason) ==
  IF ~loggerSet THEN "logger is not set"
  ELSE IF ~cSet THEN "cancel function is not set"
  ELSE IF reason = "" THEN "cannot stop keploy without a reason"
  ELSE "nil"

\* Stop that logs and returns without calling cancel
Stop_NoCancel(loggerSet, reason) ==
  LET ret == StopOutcome(loggerSet, cancelSet, reason) IN
  /\ stopLog' = Append(stopLog, [logger |-> loggerSet, reason |-> reason, ret |-> ret])
  /\ UNCHANGED <<ctxDone, cancelCount, cancelledInSet>>


Stop(loggerSet, reason) ==
  LET ret == StopOutcome(loggerSet, cancelSet, reason) IN
  /\ stopLog' = Append(stopLog, [logger |-> loggerSet, reason |-> reason, ret |-> ret])
  /\ IF ret = "nil" THEN cancel ELSE UNCHANGED <<ctxDone, cancelCount, cancelledInSet>>

\* NewCtx: creates the root context, registers its cancel function and
\* starts the goroutine waiting for interrupt/terminate
NewCtx ==
  /\ ~ctxCreated
  /\ ctxCreated' = TRUE
  /\ cancelSet' = TRUE
  /\ sigs' = "waiting"
  /\ UNCHANGED <<ctxDone, cancelCount, stopLog, cancelledInSet>>
  /\ UNCHANGED nonCtxVars

\* the goroutine of NewCtx receives a signal and cancels
SignalReceived ==
  /\ sigs = "waiting"
  /\ sigs' = "done"
  /\ cancel
  /\ UNCHANGED <<ctxCreated, cancelSet, stopLog>>
  /\ UNCHANGED nonCtxVars


\* the switch with the case of ErrUnExpected resolved as an internal error
WatcherStatus_UnexpectedInternal(sig) ==
  CASE sig = "mockErr" -> TestSetStatusFailed
    [] sig = ErrCommandError -> TestSetStatusFaultUserApp
    [] sig = ErrUnExpected -> TestSetStatusInternalErr
    [] sig = ErrAppStopped -> TestSetStatusAppHalted
    [] sig = ErrInternal -> TestSetStatusInternalErr
    [] sig = "ctxDone" -> TestSetStatusUserAbort
    [] OTHER -> TestSetStatusAppHalted

\* ------------------------------------------ RunTestSet: error watcher
\* the switch of the watcher goroutine: the status a signal resolves to
WatcherStatus(sig) ==
  CASE sig = "mockErr" -> TestSetStatusFailed
    [] sig = ErrCommandError -> TestSetStatusFaultUserApp
    [] sig = ErrUnExpected -> TestSetStatusAppHalted
    [] sig = ErrAppStopped -> TestSetStatusAppHalted
    [] sig = ErrInternal -> TestSetStatusInternalErr
    [] sig = "ctxDone" -> TestSetStatusUserAbort
    [] OTHER -> TestSetStatusAppHalted

\* the cases of the watcher's select that can proceed
ReadySignals ==
  (IF mockErr = "pending" THEN {"mockErr"} ELSE {})
  \cup (IF appPc = "sending" THEN {appErr} ELSE {})
  \cup (IF CtxDone THEN {"ctxDone"} ELSE {})

\* select { case <-mockErrChan | case <-appErrChan | case <-ctx.Done() }
Watcher_Select ==
  /\ watcherPc = "select"
  /\ \E sig \in ReadySignals :
       /\ firstSignal' = sig
       /\ mockErr' = IF sig = "mockErr" THEN "taken" ELSE mockErr
       /\ appPc' = IF sig \in AppFailures \cup {ErrCtxCanceled} THEN "done" ELSE appPc
       /\ IF sig = ErrCtxCanceled
            THEN /\ watcherPc' = "done"
                 /\ UNCHANGED testSetStatusByErrChan
            ELSE /\ watcherPc' = "sending"
                 /\ testSetStatusByErrChan' =
                      WatcherStatus(sig)
  /\ UNCHANGED <<ctxVars, startVars, mainVars, collabVars,
                 runCancelled, loopCancelled, chanClosed, appErr,
                 sigRecv, crashAt, appFailed>>
  /\ UNCHANGED <<serveTest, otherVars>>

\* exitLoopChan <- true on a channel RunTestSet has closed: the send panics
\* and utils.Recover ends the goroutine
Watcher_SendPanic ==
  /\ watcherPc = "sending"
  /\ chanClosed
  /\ watcherPc' = "panicked"
  /\ UNCHANGED <<ctxVars, startVars, mainVars, collabVars,
                 runCancelled, loopCancelled, chanClosed, mockErr, appPc, appErr,
                 testSetStatusByErrChan, obsVars>>
  /\ UNCHANGED <<serveTest, otherVars>>

\* after the send: testLoopCtxCancel(); testLoopErrGrp.Wait()
Watcher_Cancel ==
  /\ watcherPc = "cancel"
  /\ loopCancelled' = TRUE
  /\ watcherPc' = "done"
  /\ UNCHANGED <<ctxVars, startVars, mainVars, collabVars,
                 runCancelled, chanClosed, mockErr, appPc, appErr,
                 testSetStatusByErrChan, obsVars>>
  /\ UNCHANGED <<serveTest, otherVars>>

\* --------------------------------------- RunTestSet: application task
\* positions of the main task at which the test loop has not finished
InLoop == {"initReport", "select", "mocks", "simulate", "persist"}

\* values RunApplication can return
AppExitKinds ==
  AppFailures \cup (IF RunTestSetCtxDone THEN {ErrCtxCanceled} ELSE {})

\* appErr = r.RunApplication(...): ErrCtxCanceled ends the task, any other
\* value is sent on appErrChan.  An exit while runTestSetCtx is live is a
\* failure of the application during the test set.
App_Exit ==
  /\ appPc = "running"
  /\ \E kind \in AppExitKinds :
       /\ appErr' = kind
       /\ appPc' = IF kind = ErrCtxCanceled THEN "done" ELSE "sending"
       /\ IF kind # ErrCtxCanceled /\ ~RunTestSetCtxDone
            THEN /\ crashAt' = IF pc \in InLoop THEN i - 1 ELSE crashAt
                 /\ appFailed' = TRUE
            ELSE UNCHANGED <<crashAt, appFailed>>
  /\ UNCHANGED <<ctxVars, startVars, mainVars, collabVars,
                 runCancelled, loopCancelled, chanClosed, mockErr,
                 watcherPc, testSetStatusByErrChan, firstSignal, sigRecv>>
  /\ UNCHANGED <<serveTest, otherVars>>

\* the mock subsystem reports an error on mockErrChan
MockError ==
  /\ pc \notin {"idle", "load", "setup", "returned"}
  /\ mockErr = "none"
  /\ mockErr' = "pending"
  /\ UNCHANGED <<ctxVars, startVars, mainVars, collabVars,
                 runCancelled, loopCancelled, chanClosed, appPc, appErr,
                 watcherPc, testSetStatusByErrChan, obsVars>>
  /\ UNCHANGED <<serveTest, otherVars>>


\* ------------------------------------------- RunTestSet: the main task
NoReport == << >>

\* a return of RunTestSet: the deferred runTestSetCtxCancel and
\* testLoopCtxCancel run, and close(exitLoopChan) once that defer is registered
Return(status, err, chanMade) ==
  /\ pc' = "returned"
  /\ rtsRet' = <<[status |-> status, err |-> err]>>
  /\ runCancelled' = TRUE
  /\ loopCancelled' = TRUE
  /\ chanClosed' = chanMade

\* testCases, err := r.testDB.GetTestCases(...); len(testCases) == 0
RTS_GetTestCases ==
  /\ pc = "load"
  /\ \/ /\ Return(TestSetStatusFailed, TRUE, FALSE)
        /\ UNCHANGED n
     \/ /\ Return(TestSetStatusPassed, FALSE, FALSE)
        /\ n' = 0
  /\ UNCHANGED <<ctxVars, startVars, collabVars,
                 i, testSetStatus, success, failure, testPass, testResultNil,
                 initReport, finalReport,
                 mockErr, appPc, appErr, watcherPc, testSetStatusByErrChan,
                 firstSignal, sigRecv, crashAt, appFailed>>
  /\ UNCHANGED <<serveTest, otherVars>>

RTS_HasTestCases ==
  /\ pc = "load"
  /\ \E cnt \in 1..MaxCases : n' = cnt
  /\ pc' = "setup"
  /\ UNCHANGED <<ctxVars, startVars, collabVars, taskVars, obsVars,
                 i, testSetStatus, success, failure, testPass, testResultNil,
                 initReport, finalReport, rtsRet>>
  /\ UNCHANGED <<serveTest, otherVars>>

\* GetFilteredMocks, GetUnFilteredMocks, SetMocks before the loop: any error
\* returns (failed, err)
RTS_SetupFails ==
  /\ pc = "setup"
  /\ Return(TestSetStatusFailed, TRUE, FALSE)
  /\ UNCHANGED <<ctxVars, startVars, collabVars,
                 n, i, testSetStatus, success, failure, testPass, testResultNil,
                 initReport, finalReport,
                 mockErr, appPc, appErr, watcherPc, testSetStatusByErrChan,
                 firstSignal, sigRecv, crashAt, appFailed>>
  /\ UNCHANGED <<serveTest, otherVars>>

\* MockOutgoing, the application task (not started when serveTest), the
\* startup delay, exitLoopChan and the watcher goroutine
RTS_Launch ==
  /\ pc = "setup"
  /\ appPc' = IF serveTest THEN "none" ELSE "running"
  /\ watcherPc' = "select"
  /\ pc' = "initReport"
  /\ UNCHANGED <<ctxVars, startVars, collabVars, obsVars,
                 n, i, testSetStatus, success, failure, testPass, testResultNil,
                 initReport, finalReport, rtsRet,
                 runCancelled, loopCancelled, chanClosed, mockErr, appErr,
                 testSetStatusByErrChan>>
  /\ UNCHANGED <<serveTest, otherVars>>

\* InsertReport of the initial report (status running)
RTS_InitReport ==
  /\ pc = "initReport"
  /\ \E out \in CallOutcomes(RunTestSetCtxDone) :
       IF out = "ok"
         THEN /\ initReport' = TRUE
              /\ pc' = "select"
              /\ UNCHANGED <<rtsRet, runCancelled, loopCancelled, chanClosed>>
         ELSE /\ Return(TestSetStatusFailed, TRUE, TRUE)
              /\ UNCHANGED initReport
  /\ UNCHANGED <<ctxVars, startVars, collabVars,
                 n, i, testSetStatus, success, failure, testPass, testResultNil,
                 finalReport,
                 mockErr, appPc, appErr, watcherPc, testSetStatusByErrChan,
                 firstSignal, sigRecv, crashAt, appFailed>>
  /\ UNCHANGED <<serveTest, otherVars>>

\* variant: the iteration goes on with the request, the mocks left as they are
AfterExitSignal_SkipMocks == "simulate"

\* what the statement after `case <-exitLoopChan:` does to the loop: the
\* position the main task continues at.  `break` inside a select leaves the
\* select only, so the iteration goes on.
AfterExitSignal == "mocks"

\* select { case <-exitLoopChan: ...; default: } at the head of an iteration
RTS_Select ==
  /\ pc = "select"
  /\ IF watcherPc = "sending"
       THEN /\ testSetStatus' = testSetStatusByErrChan
            /\ watcherPc' = "cancel"
            /\ sigRecv' = TRUE
            /\ pc' = AfterExitSignal
       ELSE /\ pc' = "mocks"
            /\ UNCHANGED <<testSetStatus, watcherPc, sigRecv>>
  /\ UNCHANGED <<ctxVars, startVars, collabVars,
                 n, i, success, failure, testPass, testResultNil,
                 initReport, finalReport, rtsRet,
                 runCancelled, loopCancelled, chanClosed, mockErr, appPc, appErr,
                 testSetStatusByErrChan, firstSignal, crashAt, appFailed>>
  /\ UNCHANGED <<serveTest, otherVars>>

\* the end of an iteration: the next test case, or the end of the loop
NextIteration ==
  IF i < n THEN i' = i + 1 /\ pc' = "select"
           ELSE i' = i /\ pc' = "results"

\* GetFilteredMocks, GetUnFilteredMocks and SetMocks of one test case
RTS_Mocks ==
  /\ pc = "mocks"
  /\ \E out \in CallOutcomes(TestLoopCtxDone) :
       IF out = "ok"
         THEN /\ mocksSet' = mocksSet + 1
              /\ mockWindow' = i
              /\ pc' = "simulate"
              /\ UNCHANGED <<testSetStatus>>
         ELSE /\ testSetStatus' = TestSetStatusInternalErr
              /\ pc' = "results"
              /\ UNCHANGED <<mocksSet, mockWindow>>
  /\ UNCHANGED <<ctxVars, startVars, taskVars,
                 n, i, success, failure, testPass, testResultNil,
                 initReport, finalReport, rtsRet, simulated, persisted,
                 firstSignal, sigRecv, crashAt, appFailed>>
  /\ UNCHANGED <<serveTest, otherVars>>

\* SimulateRequest; on success compareResp and the counters
RTS_Simulate ==
  /\ pc = "simulate"
  /\ simulated' = simulated + 1
  /\ \/ /\ testSetStatus' = TestSetStatusUserAbort
        /\ pc' = "results"
        /\ UNCHANGED <<success, failure, testPass, testResultNil>>
     \/ /\ \E pass \in BOOLEAN, nil \in BOOLEAN :
             /\ testPass' = pass
             /\ testResultNil' = nil
             /\ success' = IF pass THEN success + 1 ELSE success
             /\ failure' = IF pass THEN failure ELSE failure + 1
        /\ pc' = "persist"
        /\ UNCHANGED <<testSetStatus>>
  /\ UNCHANGED <<ctxVars, startVars, taskVars,
                 n, i, initReport, finalReport, rtsRet, mocksSet, mockWindow, persisted,
                 firstSignal, sigRecv, crashAt, appFailed>>
  /\ UNCHANGED <<serveTest, otherVars>>

\* the status recomputed from the last test case alone
StatusAfterCase_LastCase(status, pass) ==
  IF pass THEN TestSetStatusPassed ELSE TestSetStatusFailed

\* the status of the set after a test case was persisted
StatusAfterCase(status, pass) ==
  IF pass THEN status ELSE TestSetStatusFailed

\* if testResult != nil { InsertTestCaseResult ... } else { ... }; testPass
\* and testResult are locals of the loop body and end with the iteration
RTS_Persist ==
  /\ pc = "persist"
  /\ IF testResultNil
       THEN /\ testSetStatus' = TestSetStatusInternalErr
            /\ pc' = "results"
            /\ UNCHANGED <<i, persisted>>
       ELSE \E out \in CallOutcomes(TestLoopCtxDone) :
              IF out = "ok"
                THEN /\ persisted' = persisted + 1
                     /\ testSetStatus' = StatusAfterCase(testSetStatus, testPass)
                     /\ NextIteration
                ELSE /\ testSetStatus' = TestSetStatusInternalErr
                     /\ pc' = "results"
                     /\ UNCHANGED <<i, persisted>>
  /\ testPass' = FALSE
  /\ testResultNil' = FALSE
  /\ UNCHANGED <<ctxVars, startVars, taskVars,
                 n, success, failure,
                 initReport, finalReport, rtsRet, mocksSet, mockWindow, simulated,
                 firstSignal, sigRecv, crashAt, appFailed>>
  /\ UNCHANGED <<serveTest, otherVars>>

\* GetTestCaseResults with runTestSetCtx
RTS_Results ==
  /\ pc = "results"
  /\ \E out \in CallOutcomes(RunTestSetCtxDone) :
       IF out # "ok" /\ ~RunTestSetCtxDone
         THEN testSetStatus' = TestSetStatusInternalErr
         ELSE UNCHANGED <<testSetStatus>>
  /\ pc' = "finalReport"
  /\ UNCHANGED <<ctxVars, startVars, collabVars, taskVars,
                 n, i, success, failure, testPass, testResultNil,
                 initReport, finalReport, rtsRet,
                 firstSignal, sigRecv, crashAt, appFailed>>
  /\ UNCHANGED <<serveTest, otherVars>>

\* the report built at lines 396-404
FinalTestReport ==
  [status |-> testSetStatus, total |-> n, success |-> success, failure |-> failure]

\* the final insert made with runTestSetCtx itself
ReportCtxDone_Attached == RunTestSetCtxDone

\* reportCtx := context.WithoutCancel(runTestSetCtx): never done
ReportCtxDone == FALSE

\* InsertReport of the final report with reportCtx
RTS_FinalReport ==
  /\ pc = "finalReport"
  /\ \E out \in CallOutcomes(ReportCtxDone) :
       IF out = "ok"
         THEN /\ finalReport' = <<[report |-> FinalTestReport, out |-> out]>>
              /\ pc' = "verdict"
              /\ UNCHANGED <<rtsRet, runCancelled, loopCancelled, chanClosed>>
         ELSE /\ finalReport' = <<[report |-> FinalTestReport, out |-> out]>>
              /\ Return(TestSetStatusInternalErr, TRUE, TRUE)
  /\ UNCHANGED <<ctxVars, startVars, collabVars,
                 n, i, testSetStatus, success, failure, testPass, testResultNil,
                 initReport,
                 mockErr, appPc, appErr, watcherPc, testSetStatusByErrChan,
                 firstSignal, sigRecv, crashAt, appFailed>>
  /\ UNCHANGED <<serveTest, otherVars>>

\* runTestSetCtxCancel() after the verdict of the set was added to the
\* package-level table and totals, which only printSummary's table reads
RTS_Verdict ==
  /\ pc = "verdict"
  /\ runCancelled' = TRUE
  /\ pc' = "wait"
  /\ UNCHANGED <<ctxVars, startVars, collabVars, obsVars,
                 n, i, testSetStatus, success, failure, testPass, testResultNil,
                 initReport, finalReport, rtsRet,
                 loopCancelled, chanClosed, mockErr, appPc, appErr,
                 watcherPc, testSetStatusByErrChan>>
  /\ UNCHANGED <<serveTest, otherVars>>

\* the tasks of runTestSetErrGrp have all returned
AppTaskReturned == appPc \in {"none", "done"}

\* runTestSetErrGrp.Wait() returns once the application task has returned;
\* the task always returns nil
RTS_Wait ==
  /\ pc = "wait"
  /\ AppTaskReturned
  /\ Return(testSetStatus, FALSE, TRUE)
  /\ UNCHANGED <<ctxVars, startVars, collabVars, obsVars,
                 n, i, testSetStatus, success, failure, testPass, testResultNil,
                 initReport, finalReport,
                 mockErr, appPc, appErr, watcherPc, testSetStatusByErrChan>>
  /\ UNCHANGED <<serveTest, otherVars>>


\* ------------------------------------------------------ replayer.Start
\* BootReplay returns context.Canceled when ctx is already done at its select
BootOutcomes == IF CtxDone THEN {"canceled"} ELSE CallOutcomes(FALSE)

\* testRunId, appId, err := r.BootReplay(ctx)
Start_Boot ==
  /\ startPc = "boot"
  /\ \E out \in BootOutcomes :
       IF out = "ok"
         THEN /\ startPc' = "list"
              /\ UNCHANGED <<stopReason, startRet>>
         ELSE /\ stopReason' = "failed to boot replay"
              /\ startRet' = "err"
              /\ startPc' = "defer"
  /\ UNCHANGED <<ctxVars, mainVars, collabVars, taskVars, obsVars,
                 testSetResult, testRunResult, abortTestRun, setIdx, setStatuses, summary>>
  /\ UNCHANGED <<serveTest, otherVars>>

\* testSetIds, err := r.testDB.GetAllTestSetIds(ctx)
Start_List ==
  /\ startPc = "list"
  /\ \E out \in CallOutcomes(CtxDone) :
       IF out = "ok"
         THEN /\ startPc' = "loop"
              /\ UNCHANGED <<stopReason, startRet>>
         ELSE /\ stopReason' = "failed to get all test set ids"
              /\ startRet' = "err"
              /\ startPc' = "defer"
  /\ UNCHANGED <<ctxVars, mainVars, collabVars, taskVars, obsVars,
                 testSetResult, testRunResult, abortTestRun, setIdx, setStatuses, summary>>
  /\ UNCHANGED <<serveTest, otherVars>>

\* the next iteration of `for _, testSetId := range testSetIds`: the call of
\* RunTestSet with its locals as declared at lines 185-192
Start_CallRunTestSet ==
  /\ startPc = "loop"
  /\ setIdx < NumSets
  /\ setIdx' = setIdx + 1
  /\ startPc' = "inSet"
  /\ pc' = "load"
  /\ n' = 0
  /\ i' = 1
  /\ testSetStatus' = TestSetStatusPassed
  /\ success' = 0
  /\ failure' = 0
  /\ testPass' = FALSE
  /\ testResultNil' = FALSE
  /\ initReport' = FALSE
  /\ finalReport' = NoReport
  /\ rtsRet' = << >>
  /\ mocksSet' = 0
  /\ mockWindow' = 0
  /\ simulated' = 0
  /\ persisted' = 0
  /\ sigRecv' = FALSE
  /\ crashAt' = -1
  /\ UNCHANGED <<ctxVars, taskVars, firstSignal, appFailed,
                 stopReason, testSetResult, testRunResult, abortTestRun,
                 setStatuses, summary, startRet>>
  /\ serveTest' = FALSE
  /\ UNCHANGED otherVars

\* the range loop is exhausted
Start_LoopEnd ==
  /\ startPc = "loop"
  /\ setIdx = NumSets
  /\ startPc' = "summary"
  /\ UNCHANGED <<ctxVars, mainVars, collabVars, taskVars, obsVars,
                 stopReason, testSetResult, testRunResult, abortTestRun,
                 setIdx, setStatuses, summary, startRet>>
  /\ UNCHANGED <<serveTest, otherVars>>

\* the switch on testSetStatus: the new testSetResult
SetResult(status, prev) ==
  CASE status = TestSetStatusAppHalted -> FALSE
    [] status = TestSetStatusInternalErr -> FALSE
    [] status = TestSetStatusFaultUserApp -> FALSE
    [] status = TestSetStatusFailed -> FALSE
    [] status = TestSetStatusPassed -> TRUE
    [] OTHER -> prev

\* the switch on testSetStatus: whether the run is aborted
SetAborts(status) ==
  status \in {TestSetStatusAppHalted, TestSetStatusInternalErr, TestSetStatusFaultUserApp}

\* the verdict taken from the last test set alone
RunResult_LastSet(run, set) == set

\* testRunResult = testRunResult && testSetResult
RunResult(run, set) == run /\ set

\* lines 93-119: RunTestSet has returned
Start_AfterSet ==
  /\ startPc = "inSet"
  /\ pc = "returned"
  /\ LET ret == rtsRet[1] IN
     /\ setStatuses' = Append(setStatuses, ret)
     /\ IF ret.err
          THEN /\ stopReason' = "failed to run test set"
               /\ startRet' = "err"
               /\ startPc' = "defer"
               /\ UNCHANGED <<testSetResult, testRunResult, abortTestRun>>
          ELSE IF ret.status = TestSetStatusUserAbort
          THEN /\ startRet' = "nil"
               /\ startPc' = "defer"
               /\ UNCHANGED <<stopReason, testSetResult, testRunResult, abortTestRun>>
          ELSE /\ testSetResult' = SetResult(ret.status, testSetResult)
               /\ abortTestRun' = (abortTestRun \/ SetAborts(ret.status))
               /\ testRunResult' = RunResult(testRunResult, testSetResult')
               /\ startPc' = IF abortTestRun' THEN "summary" ELSE "loop"
               /\ UNCHANGED <<stopReason, startRet>>
  /\ pc' = "idle"
  \* the frame of the call is gone: its contexts, channels and tasks
  /\ runCancelled' = FALSE
  /\ loopCancelled' = FALSE
  /\ chanClosed' = FALSE
  /\ mockErr' = "none"
  /\ appPc' = "none"
  /\ appErr' = "none"
  /\ watcherPc' = "none"
  /\ testSetStatusByErrChan' = TestSetStatusRunning
  /\ firstSignal' = "none"
  /\ UNCHANGED <<ctxVars, collabVars, sigRecv, crashAt, appFailed,
                 n, i, testSetStatus, success, failure, testPass, testResultNil,
                 initReport, finalReport, rtsRet, setIdx, summary>>
  /\ UNCHANGED <<serveTest, otherVars>>

\* if !abortTestRun { r.printSummary(ctx, testRunResult) }; return nil
Start_Summary ==
  /\ startPc = "summary"
  /\ summary' = IF abortTestRun THEN summary ELSE <<testRunResult>>
  /\ startRet' = "nil"
  /\ startPc' = "defer"
  /\ UNCHANGED <<ctxVars, mainVars, collabVars, taskVars, obsVars,
                 stopReason, testSetResult, testRunResult, abortTestRun,
                 setIdx, setStatuses>>
  /\ UNCHANGED <<serveTest, otherVars>>

\* the deferred function of Start: utils.Stop unless ctx is done
Start_Defer ==
  /\ startPc = "defer"
  /\ IF CtxDone
       THEN UNCHANGED <<ctxDone, cancelCount, stopLog, cancelledInSet>>
       ELSE Stop(TRUE, stopReason)
  /\ startPc' = "done"
  /\ UNCHANGED <<ctxCreated, cancelSet, sigs, mainVars, collabVars,
                 taskVars, obsVars,
                 stopReason, testSetResult, testRunResult, abortTestRun,
                 setIdx, setStatuses, summary, startRet>>
  /\ UNCHANGED <<serveTest, otherVars>>

\* ------------------------------------------------------- specification
\* the root context as NewCtx leaves it
CtxAfterNewCtx ==
  /\ ctxCreated = TRUE
  /\ cancelSet = TRUE
  /\ ctxDone = FALSE
  /\ cancelCount = 0
  /\ sigs = "waiting"
  /\ stopLog = << >>
  /\ cancelledInSet = 0

\* the locals of Start at line 57 and lines 89-91
StartLocals ==
  /\ stopReason = ""
  /\ testSetResult = FALSE
  /\ testRunResult = TRUE
  /\ abortTestRun = FALSE
  /\ setStatuses = << >>
  /\ summary = << >>
  /\ startRet = "none"

\* the other packages are not part of a replay
FilterIdle ==
  /\ tcs = << >>
  /\ mocks = << >>
  /\ filtered = << >>

SortIdle ==
  /\ testSuiteNames = << >>
  /\ sortedNames = << >>

\* NewFactory: an empty registry, nobody holds the mutex
NewFactory ==
  /\ connections = << >>
  /\ mutex = {}
  /\ nextTracker = 1
  /\ gPc = [g \in Callers |-> "idle"]
  /\ gArg = [g \in Callers |-> 0]
  /\ gRet = << >>
  /\ sweepPc = "idle"
  /\ toVisit = {}
  /\ trackersToDelete = {}
  /\ cur = 0
  /\ sweepCtxDone = FALSE
  /\ emitted = << >>
  /\ sweeps = 0

\* the empty string among the request payloads 1..NumPayloads
EmptyPayload == 0

\* var configRequests = []string{""}
MongoIdle ==
  /\ configRequests = <<EmptyPayload>>
  /\ seenHeartbeats = {}
  /\ lastMessage = << >>
  /\ messages = 0

\* a map without keys
EmptyMap == [k \in {} |-> << >>]

\* no call of CompareHeaders: empty headers, no noise
HeadersIdle ==
  /\ hdrExpected = EmptyMap
  /\ hdrActual = EmptyMap
  /\ hdrNoise = EmptyMap
  /\ hdrResult = << >>

\* no call of Flatten: j == nil
FlattenIdle ==
  /\ flatInput = [kind |-> "nil", v |-> ""]
  /\ flatOutput = << >>

\* the two tasks encodeGrpc adds to the error group
TransferTasks == {"clientToServer", "serverToClient"}

\* no call of encodeGrpc: destConn as dialled, no task in the group
GrpcIdle ==
  /\ grpcPc = "idle"
  /\ grpcRet = "none"
  /\ destConn = "open"
  /\ prefaceSent = FALSE
  /\ transfers = [t \in TransferTasks |-> [st |-> "none", frames |-> 0, err |-> "nil"]]

\* the connections whose handlers call recordMessage
Recorders == 1..NumRecorders

\* the locals of a connection that has not called recordMessage
NoCall ==
  [pc |-> "idle", requests |-> << >>, heartbeat |-> FALSE, snapshot |-> << >>,
   at |-> 1, k |-> 1, shouldRecordCalls |-> TRUE, old |-> << >>]

\* no call of recordMessage in progress, nothing sent on mocks
RecorderIdle ==
  /\ recorders = [c \in Recorders |-> NoCall]
  /\ sentMocks = << >>

OthersIdle ==
  /\ FilterIdle
  /\ SortIdle
  /\ NewFactory
  /\ MongoIdle
  /\ HeadersIdle
  /\ FlattenIdle
  /\ GrpcIdle
  /\ RecorderIdle

\* the locals of a RunTestSet call as declared at lines 174-192: no task
\* started, no channel made
CallLocals ==
  /\ n = 0
  /\ i = 1
  /\ testSetStatus = TestSetStatusPassed
  /\ success = 0
  /\ failure = 0
  /\ testPass = FALSE
  /\ testResultNil = FALSE
  /\ initReport = FALSE
  /\ finalReport = NoReport
  /\ rtsRet = << >>
  /\ mocksSet = 0
  /\ mockWindow = 0
  /\ simulated = 0
  /\ persisted = 0
  /\ runCancelled = FALSE
  /\ loopCancelled = FALSE
  /\ chanClosed = FALSE
  /\ mockErr = "none"
  /\ appPc = "none"
  /\ appErr = "none"
  /\ watcherPc = "none"
  /\ testSetStatusByErrChan = TestSetStatusRunning
  /\ firstSignal = "none"
  /\ sigRecv = FALSE
  /\ crashAt = -1
  /\ appFailed = FALSE

\* the state in which Start is called: NewCtx has run
Init ==
  /\ CtxAfterNewCtx
  /\ StartLocals
  /\ startPc = "boot"
  /\ setIdx = 0
  /\ pc = "idle"
  /\ serveTest = FALSE
  /\ CallLocals
  /\ OthersIdle

Next ==
  \/ Start_Boot
  \/ Start_List
  \/ Start_CallRunTestSet
  \/ Start_LoopEnd
  \/ Start_AfterSet
  \/ Start_Summary
  \/ Start_Defer
  \/ RTS_GetTestCases
  \/ RTS_HasTestCases
  \/ RTS_SetupFails
  \/ RTS_Launch
  \/ RTS_InitReport
  \/ RTS_Select
  \/ RTS_Mocks
  \/ RTS_Simulate
  \/ RTS_Persist
  \/ RTS_Results
  \/ RTS_FinalReport
  \/ RTS_Verdict
  \/ RTS_Wait
  \/ App_Exit
  \/ Watcher_Select
  \/ Watcher_SendPanic
  \/ Watcher_Cancel
  \/ MockError
  \/ SignalReceived

Spec == Init /\ [][Next]_vars


\* the main task of RunTestSet takes its next step: every call it makes
\* returns
MainStep ==
  \/ RTS_GetTestCases
  \/ RTS_HasTestCases
  \/ RTS_SetupFails
  \/ RTS_Launch
  \/ RTS_InitReport
  \/ RTS_Select
  \/ RTS_Mocks
  \/ RTS_Simulate
  \/ RTS_Persist
  \/ RTS_Results
  \/ RTS_FinalReport
  \/ RTS_Verdict
  \/ RTS_Wait

\* Start has called RunTestSet for its first test set
CallInit ==
  /\ CtxAfterNewCtx
  /\ StartLocals
  /\ startPc = "inSet"
  /\ setIdx = 1
  /\ pc = "load"
  /\ serveTest \in BOOLEAN
  /\ CallLocals
  /\ OthersIdle

\* the steps of one RunTestSet call: its three tasks, the mock subsystem and
\* the signal goroutine
CallNext ==
  \/ MainStep
  \/ App_Exit
  \/ Watcher_Select
  \/ Watcher_SendPanic
  \/ Watcher_Cancel
  \/ MockError
  \/ SignalReceived

\* one RunTestSet call, up to its return
CallSpec == CallInit /\ [][CallNext]_vars

\* the same with the main task and the watcher scheduled as long as they can
\* take a step, and RunApplication returning once runTestSetCtx is cancelled
CallFairSpec ==
  /\ CallSpec
  /\ WF_vars(MainStep)
  /\ WF_vars(Watcher_Select)
  /\ WF_vars(Watcher_SendPanic)
  /\ WF_vars(Watcher_Cancel)
  /\ WF_vars(RunTestSetCtxDone /\ App_Exit)

\* ------------------------------------- specification of utils/ctx.go
\* reasons passed to Stop; the empty one is what Start passes when no error
\* path has set stopReason
Reasons == {"", "failed to boot replay", "failed to run test set"}

\* a call of Stop by any caller
StopCall ==
  /\ Len(stopLog) < MaxStops
  /\ \E loggerSet \in BOOLEAN, reason \in Reasons : Stop(loggerSet, reason)
  /\ UNCHANGED <<ctxCreated, cancelSet, sigs>>
  /\ UNCHANGED nonCtxVars

\* the process before NewCtx: no context, no cancel function registered
ReplayIdle ==
  /\ ctxCreated = FALSE
  /\ cancelSet = FALSE
  /\ ctxDone = FALSE
  /\ cancelCount = 0
  /\ sigs = "off"
  /\ stopLog = << >>
  /\ cancelledInSet = 0
  /\ StartLocals
  /\ startPc = "boot"
  /\ setIdx = 0
  /\ pc = "idle"
  /\ serveTest = FALSE
  /\ CallLocals

StopInit ==
  /\ ReplayIdle
  /\ OthersIdle

StopNext ==
  \/ NewCtx
  \/ StopCall
  \/ SignalReceived

StopSpec == StopInit /\ [][StopNext]_vars


\* ------------------------------------------------ FilterTcsMocks (test)
\* time.Time{}: the timestamp that is missing
ZeroTime == 0

Timestamps == 0..MaxTs

Versions == {"api.keploy.io/v1beta1", "api.keploy-enterprise.io/v1beta1"}

\* models.Mock as far as FilterTcsMocks reads it
Mocks == [Version : Versions, ReqTimestampMock : Timestamps,
          ResTimestampMock : Timestamps]

\* models.TestCase as far as FilterTcsMocks reads it
TestCases == [HttpReq : Timestamps, HttpResp : Timestamps]

MockLists == UNION {[1..k -> Mocks] : k \in 0..MaxMocks}

\* t.After(u), t.Before(u)
After(t, u) == t > u
Before(t, u) == t < u

\* the window test with After/Before replaced by not-before/not-after
InWindow_Inclusive(tc, mock) ==
  /\ ~Before(mock.ReqTimestampMock, tc.HttpReq)
  /\ ~After(mock.ResTimestampMock, tc.HttpResp)

\* the mock's request and response timestamps lie between the test's
InWindow(tc, mock) ==
  /\ After(mock.ReqTimestampMock, tc.HttpReq)
  /\ Before(mock.ResTimestampMock, tc.HttpResp)

\* the range loop over m from index k on, filteredMocks being the list
\* built so far
RECURSIVE FilterLoop(_, _, _, _)
FilterLoop(tc, m, k, filteredMocks) ==
  IF k > Len(m) THEN filteredMocks
  ELSE IF m[k].ReqTimestampMock = ZeroTime \/ m[k].ResTimestampMock = ZeroTime
    THEN FilterLoop(tc, m, k + 1, Append(filteredMocks, m[k]))
  ELSE IF InWindow(tc, m[k])
    THEN FilterLoop(tc, m, k + 1, Append(filteredMocks, m[k]))
  ELSE FilterLoop(tc, m, k + 1, filteredMocks)

\* FilterTcsMocks without the two early returns
FilterTcsMocks_AlwaysFilter(tc, m) == FilterLoop(tc, m, 1, << >>)

FilterTcsMocks(tc, m) ==
  IF tc.HttpReq = ZeroTime THEN m
  ELSE IF tc.HttpResp = ZeroTime THEN m
  ELSE FilterLoop(tc, m, 1, << >>)

\* a call FilterTcsMocks(tc, mocks, logger)
Filter_Call ==
  /\ filtered = << >>
  /\ \E tc \in TestCases :
       /\ tcs' = <<tc>>
       /\ filtered' = <<FilterTcsMocks(tc, mocks)>>
  /\ UNCHANGED mocks
  /\ UNCHANGED nonFilterVars

\* a mock list as read from the store, no call made yet
FilterInit ==
  /\ ReplayIdle
  /\ mocks \in MockLists
  /\ tcs = << >>
  /\ filtered = << >>
  /\ SortIdle
  /\ NewFactory
  /\ MongoIdle
  /\ GrpcIdle
  /\ RecorderIdle
  /\ HeadersIdle
  /\ FlattenIdle

FilterSpec == FilterInit /\ [][Filter_Call]_vars

\* ------------------------------------------- printSummary (replay): sort
\* a string is the sequence of its characters
Digit == <<"0", "1", "2", "3", "4", "5", "6", "7", "8", "9">>

\* the byte value of a character
Code(c) ==
  CASE c = "-" -> 45
    [] c = "e" -> 101
    [] c = "s" -> 115
    [] c = "t" -> 116
    [] OTHER -> 47 + (CHOOSE d \in DOMAIN Digit : Digit[d] = c)

IsDigit(c) == \E d \in DOMAIN Digit : Digit[d] = c

\* strconv.Itoa for a natural number
RECURSIVE Itoa(_)
Itoa(x) == IF x < 10 THEN <<Digit[x + 1]>>
           ELSE Itoa(x \div 10) \o <<Digit[(x % 10) + 1]>>

\* the prefixes of the names: "set" and "test-set"
Prefixes == {<<"s", "e", "t">>, <<"t", "e", "s", "t", "-", "s", "e", "t">>}

\* the test-set names: prefix-number
Names == {p \o <<"-">> \o Itoa(x) : p \in Prefixes, x \in 1..MaxNum}

\* s < t on Go strings: bytewise lexicographic order
RECURSIVE StringLess(_, _)
StringLess(a, b) ==
  IF b = << >> THEN FALSE
  ELSE IF a = << >> THEN TRUE
  ELSE IF Code(Head(a)) # Code(Head(b)) THEN Code(Head(a)) < Code(Head(b))
  ELSE StringLess(Tail(a), Tail(b))

\* strings.Split(str, "-"): part is the part being read
RECURSIVE SplitFrom(_, _)
SplitFrom(str, part) ==
  IF str = << >> THEN <<part>>
  ELSE IF Head(str) = "-" THEN <<part>> \o SplitFrom(Tail(str), << >>)
  ELSE SplitFrom(Tail(str), Append(part, Head(str)))

Split(str) == SplitFrom(str, << >>)

\* the value of a string of digits
RECURSIVE DigitsValue(_)
DigitsValue(str) ==
  IF str = << >> THEN 0
  ELSE DigitsValue(SubSeq(str, 1, Len(str) - 1)) * 10
         + Code(str[Len(str)]) - 48

\* strconv.Atoi on a string without sign: [err, val]
Atoi(str) ==
  IF str # << >> /\ \A k \in DOMAIN str : IsDigit(str[k])
    THEN [err |-> FALSE, val |-> DigitsValue(str)]
    ELSE [err |-> TRUE, val |-> 0]

\* the less function given to sort.SliceStable
NameLess(a, b) ==
  LET testSuitePartsI == Split(a)
      testSuitePartsJ == Split(b)
  IN IF Len(testSuitePartsI) < 3 \/ Len(testSuitePartsJ) < 3
       THEN StringLess(a, b)
       ELSE LET numI == Atoi(testSuitePartsI[3])
                numJ == Atoi(testSuitePartsJ[3])
            IN IF numI.err \/ numJ.err THEN FALSE ELSE numI.val < numJ.val

\* the inner loop of the insertion sort: data[j] moves down while it is
\* less than its predecessor
RECURSIVE SinkDown(_, _)
SinkDown(data, j) ==
  IF j > 1 /\ NameLess(data[j], data[j - 1])
    THEN SinkDown([data EXCEPT ![j] = data[j - 1], ![j - 1] = data[j]], j - 1)
    ELSE data

\* sort.SliceStable on fewer than 20 elements: one insertion sort
RECURSIVE InsertionSort(_, _)
InsertionSort(data, k) ==
  IF k > Len(data) THEN data
  ELSE InsertionSort(SinkDown(data, k), k + 1)

SliceStable(data) == InsertionSort(data, 2)

\* the keys of a map in the order its range loop yields them: any order,
\* no key twice
KeyLists ==
  {l \in UNION {[1..k -> Names] : k \in 0..MaxNames} :
     \A x, y \in DOMAIN l : x # y => l[x] # l[y]}

\* printSummary sorts the names it collected
Sort_Call ==
  /\ sortedNames = << >>
  /\ sortedNames' = <<SliceStable(testSuiteNames)>>
  /\ UNCHANGED testSuiteNames
  /\ UNCHANGED nonSortVars

\* the names were collected from the map, the sort has not run
SortInit ==
  /\ ReplayIdle
  /\ FilterIdle
  /\ testSuiteNames \in KeyLists
  /\ sortedNames = << >>
  /\ NewFactory
  /\ MongoIdle
  /\ GrpcIdle
  /\ RecorderIdle
  /\ HeadersIdle
  /\ FlattenIdle

SortSpec == SortInit /\ [][Sort_Call]_vars

\* ------------------------------------------------- conn.Factory (hooks)
ConnIDs == 1..NumConns

\* what IsComplete hands to the sweep when it reports ok: the buffers are
\* empty, the request or the response does not parse, a body cannot be read,
\* or the exchange is well formed
BufKinds == {"empty", "badRequest", "badResponse", "badBody", "ok"}

\* NewTracker(connectionID, logger)
NewTracker(id) ==
  [id |-> id, complete |-> FALSE, bufs |-> "partial", inactive |-> FALSE]

\* tracker.IsComplete(): ok
IsComplete(tracker) == tracker.complete

\* the request and the response buffer IsComplete hands out are both
\* non-empty
BuffersNonEmpty(tracker) == tracker.bufs \notin {"partial", "empty"}

\* the two timestamps IsComplete hands out are set: the first non-empty
\* append to a buffer sets its timestamp
TimestampsSet(tracker) == BuffersNonEmpty(tracker)

\* tracker.IsInactive(factory.inactivityThreshold)
IsInactive(tracker) == tracker.inactive

\* the last bytes of the exchange on a registered connection arrive
Tracker_Complete ==
  /\ \E c \in DOMAIN connections, kind \in BufKinds :
       /\ ~connections[c].complete
       /\ connections' = [connections EXCEPT ![c].complete = TRUE,
                                             ![c].bufs = kind,
                                             ![c].inactive = FALSE]
  /\ UNCHANGED <<mutex, nextTracker, gPc, gArg, gRet, sweepPc, toVisit,
                 trackersToDelete, cur, sweepCtxDone, emitted, sweeps>>
  /\ UNCHANGED nonFactoryVars

\* no activity on a registered connection for longer than the threshold;
\* the sweep asks IsInactive only of a tracker that is not complete
Tracker_Idle ==
  /\ \E c \in DOMAIN connections :
       /\ ~connections[c].complete
       /\ ~connections[c].inactive
       /\ connections' = [connections EXCEPT ![c].inactive = TRUE]
  /\ UNCHANGED <<mutex, nextTracker, gPc, gArg, gRet, sweepPc, toVisit,
                 trackersToDelete, cur, sweepCtxDone, emitted, sweeps>>
  /\ UNCHANGED nonFactoryVars

\* a mutex that excludes nobody
MutexFree_NoExclusion == TRUE

\* factory.mutex.Lock() can return
MutexFree == mutex = {}

\* GetOrCreate: factory.mutex.Lock()
GOC_Lock ==
  /\ nextTracker <= MaxTrackers
  /\ \E g \in Callers, c \in ConnIDs :
       /\ gPc[g] = "idle"
       /\ MutexFree
       /\ mutex' = mutex \cup {g}
       /\ gPc' = [gPc EXCEPT ![g] = "locked"]
       /\ gArg' = [gArg EXCEPT ![g] = c]
  /\ UNCHANGED <<connections, nextTracker, gRet, sweepPc, toVisit,
                 trackersToDelete, cur, sweepCtxDone, emitted, sweeps>>
  /\ UNCHANGED nonFactoryVars

\* tracker, ok := factory.connections[connectionID]; return tracker when ok
GOC_Lookup ==
  /\ \E g \in Callers :
       /\ gPc[g] = "locked"
       /\ IF gArg[g] \in DOMAIN connections
            THEN /\ gRet' = <<[conn |-> gArg[g], ok |-> TRUE,
                              tracker |-> connections[gArg[g]].id]>>
                 /\ gPc' = [gPc EXCEPT ![g] = "idle"]
                 /\ gArg' = [gArg EXCEPT ![g] = 0]
                 /\ mutex' = mutex \ {g}
            ELSE /\ gPc' = [gPc EXCEPT ![g] = "insert"]
                 /\ UNCHANGED <<gRet, gArg, mutex>>
  /\ UNCHANGED <<connections, nextTracker, sweepPc, toVisit,
                 trackersToDelete, cur, sweepCtxDone, emitted, sweeps>>
  /\ UNCHANGED nonFactoryVars

\* factory.connections[connectionID] = NewTracker(...); return it
GOC_Insert ==
  /\ \E g \in Callers :
       /\ gPc[g] = "insert"
       /\ connections' = (gArg[g] :> NewTracker(nextTracker)) @@ connections
       /\ emitted' = (nextTracker :> 0) @@ emitted
       /\ nextTracker' = nextTracker + 1
       /\ gRet' = <<[conn |-> gArg[g], ok |-> FALSE, tracker |-> nextTracker]>>
       /\ gPc' = [gPc EXCEPT ![g] = "idle"]
       /\ gArg' = [gArg EXCEPT ![g] = 0]
       /\ mutex' = mutex \ {g}
  /\ UNCHANGED <<sweepPc, toVisit, trackersToDelete, cur, sweepCtxDone, sweeps>>
  /\ UNCHANGED nonFactoryVars

\* the body of the default case for one tracker, without the check of the
\* buffer lengths
Verdict_NoLengthCheck(tracker) ==
  IF IsComplete(tracker)
    THEN IF tracker.bufs \in {"empty", "ok"} THEN "send" ELSE "skip"
    ELSE IF IsInactive(tracker) THEN "delete" ELSE "keep"

\* the body of the default case for one tracker, with the inactive tracker
\* left alone
Verdict_InactiveKept(tracker) ==
  IF IsComplete(tracker)
    THEN IF tracker.bufs = "ok" THEN "send" ELSE "skip"
    ELSE "keep"

\* the body of the default case for one tracker: "send" when capture reaches
\* its channel send, "skip" on a continue or a return of capture before the
\* send, "delete" when the tracker is appended to trackersToDelete
Verdict(tracker) ==
  IF IsComplete(tracker)
    THEN IF tracker.bufs = "empty" THEN "skip"
         ELSE IF tracker.bufs = "badRequest" THEN "skip"
         ELSE IF tracker.bufs = "badResponse" THEN "skip"
         ELSE IF tracker.bufs = "badBody" THEN "skip"
         ELSE "send"
    ELSE IF IsInactive(tracker) THEN "delete" ELSE "keep"

\* ProcessActiveTrackers: factory.mutex.Lock(), the range loop starts
PAT_Lock ==
  /\ sweepPc = "idle"
  /\ sweeps < MaxSweeps
  /\ MutexFree
  /\ mutex' = mutex \cup {"sweep"}
  /\ sweeps' = sweeps + 1
  /\ toVisit' = DOMAIN connections
  /\ trackersToDelete' = {}
  /\ sweepPc' = "range"
  /\ UNCHANGED <<connections, nextTracker, gPc, gArg, gRet, cur, sweepCtxDone,
                 emitted>>
  /\ UNCHANGED nonFactoryVars

\* one iteration of the range loop up to the channel send: the select on
\* ctx.Done() returns from the function (the deferred Unlock runs)
PAT_Visit ==
  /\ sweepPc = "range"
  /\ \E c \in toVisit :
       IF sweepCtxDone
         THEN /\ sweepPc' = "idle"
              /\ mutex' = mutex \ {"sweep"}
              /\ toVisit' = {}
              /\ cur' = 0
              /\ UNCHANGED trackersToDelete
         ELSE /\ toVisit' = toVisit \ {c}
              /\ UNCHANGED mutex
              /\ LET v == IF c \in DOMAIN connections
                            THEN Verdict(connections[c]) ELSE "keep" IN
                 /\ sweepPc' = IF v = "send" THEN "send" ELSE "range"
                 /\ cur' = IF v = "send" THEN c ELSE 0
                 /\ trackersToDelete' =
                      IF v = "delete" THEN trackersToDelete \cup {c}
                      ELSE trackersToDelete
  /\ UNCHANGED <<connections, nextTracker, gPc, gArg, gRet, sweepCtxDone,
                 emitted, sweeps>>
  /\ UNCHANGED nonFactoryVars

\* capture: t <- &models.TestCase{...} completes when the consumer receives
PAT_Send ==
  /\ sweepPc = "send"
  /\ emitted' = [emitted EXCEPT ![connections[cur].id] = @ + 1]
  /\ sweepPc' = "range"
  /\ cur' = 0
  /\ UNCHANGED <<connections, mutex, nextTracker, gPc, gArg, gRet, toVisit,
                 trackersToDelete, sweepCtxDone, sweeps>>
  /\ UNCHANGED nonFactoryVars

\* the range loop is over: delete the trackers of trackersToDelete, unlock
PAT_Finish ==
  /\ sweepPc = "range"
  /\ toVisit = {}
  /\ connections' = [c \in DOMAIN connections \ trackersToDelete |-> connections[c]]
  /\ trackersToDelete' = {}
  /\ mutex' = mutex \ {"sweep"}
  /\ sweepPc' = "idle"
  /\ UNCHANGED <<nextTracker, gPc, gArg, gRet, toVisit, cur, sweepCtxDone,
                 emitted, sweeps>>
  /\ UNCHANGED nonFactoryVars

\* the context given to the sweeps is cancelled
Factory_Cancel ==
  /\ ~sweepCtxDone
  /\ sweepCtxDone' = TRUE
  /\ UNCHANGED <<connections, mutex, nextTracker, gPc, gArg, gRet, sweepPc,
                 toVisit, trackersToDelete, cur, emitted, sweeps>>
  /\ UNCHANGED nonFactoryVars

FactoryInit ==
  /\ ReplayIdle
  /\ FilterIdle
  /\ SortIdle
  /\ NewFactory
  /\ MongoIdle
  /\ GrpcIdle
  /\ RecorderIdle
  /\ HeadersIdle
  /\ FlattenIdle

FactoryNext ==
  \/ GOC_Lock
  \/ GOC_Lookup
  \/ GOC_Insert
  \/ Tracker_Complete
  \/ Tracker_Idle
  \/ PAT_Lock
  \/ PAT_Visit
  \/ PAT_Send
  \/ PAT_Finish
  \/ Factory_Cancel

FactorySpec == FactoryInit /\ [][FactoryNext]_vars

\* ------------------------------------------------ recordMessage (mongo)
\* the string the switch on req.Header.Opcode compares with v and appends:
\* the Query of an OpQuery, Sections[0] of an OpMsg, opReq.String() otherwise.
\* A heartbeat carries the hello field, so its keys are not the empty string.
RequestKeys == 1..NumPayloads

\* mongoRequests of a call
RequestLists == UNION {[1..k -> RequestKeys] : k \in 1..MaxRequests}

\* the inner loop over mongoRequests for one v, from request k on:
\* [config, record] after it
RECURSIVE RequestsLoop(_, _, _, _, _)
RequestsLoop(v, mongoRequests, k, config, shouldRecordCalls) ==
  IF k > Len(mongoRequests) THEN [config |-> config, record |-> shouldRecordCalls]
  ELSE IF mongoRequests[k] = v
    THEN RequestsLoop(v, mongoRequests, k + 1, config, FALSE)
    ELSE RequestsLoop(v, mongoRequests, k + 1,
                      Append(config, mongoRequests[k]), shouldRecordCalls)

\* the outer loop over the elements configRequests had when the range
\* statement was evaluated, from element j on
RECURSIVE ConfigLoop(_, _, _, _, _)
ConfigLoop(snapshot, mongoRequests, j, config, shouldRecordCalls) ==
  IF j > Len(snapshot) THEN [config |-> config, record |-> shouldRecordCalls]
  ELSE LET r == RequestsLoop(snapshot[j], mongoRequests, 1, config,
                             shouldRecordCalls)
       IN ConfigLoop(snapshot, mongoRequests, j + 1, r.config, r.record)

\* recordMessage: [config, record, type]
RecordMessage(mongoRequests, heartbeat, config) ==
  IF heartbeat
    THEN LET r == ConfigLoop(config, mongoRequests, 1, config, TRUE)
         IN [config |-> r.config, record |-> r.record, type |-> "config"]
    ELSE [config |-> config, record |-> TRUE, type |-> ""]

\* a call recordMessage(..., mongoRequests, ...); isHeartBeat decides on
\* mongoRequests[0]
Mongo_RecordMessage ==
  /\ messages < MaxMessages
  /\ messages' = messages + 1
  /\ \E mongoRequests \in RequestLists, heartbeat \in BOOLEAN :
       LET r == RecordMessage(mongoRequests, heartbeat, configRequests) IN
       /\ configRequests' = r.config
       /\ seenHeartbeats' = IF heartbeat
                              THEN seenHeartbeats \cup {mongoRequests}
                              ELSE seenHeartbeats
       /\ lastMessage' = <<[requests |-> mongoRequests,
                            heartbeat |-> heartbeat,
                            first |-> mongoRequests \notin seenHeartbeats,
                            mock |-> IF r.record THEN r.type ELSE "none"]>>
  /\ UNCHANGED nonMongoVars

MongoInit ==
  /\ ReplayIdle
  /\ FilterIdle
  /\ SortIdle
  /\ NewFactory
  /\ MongoIdle
  /\ GrpcIdle
  /\ RecorderIdle
  /\ HeadersIdle
  /\ FlattenIdle

MongoSpec == MongoInit /\ [][Mongo_RecordMessage]_vars

\* ------------------------------------------------ CompareHeaders
HeaderKeys == {"Accept", "Etag"}
HeaderValues == {"x", "y"}

\* the values of one key of an http.Header: at least one
ValueLists == UNION {[1..len -> HeaderValues] : len \in 1..MaxValues}

Headers == UNION {[D -> ValueLists] : D \in SUBSET HeaderKeys}

\* regexp.MustCompile(pattern).MatchString(str) for the patterns of the model:
\* a pattern matches the value it spells and no other ("z" matches no value)
MatchString(pattern, str) == pattern = str

\* the lists of regular expressions of a noise entry
RegexLists == {<< >>, <<"z", "x">>}

\* noise maps: any header key with a list of regular expressions, and the
\* key "header" (only its presence is read)
NoiseMaps ==
  {nm \in UNION {[D -> RegexLists] : D \in SUBSET (HeaderKeys \cup {"header"})} :
     "header" \in DOMAIN nm => nm["header"] = << >>}

RECURSIVE MatchesAnyRegexFrom(_, _, _)
MatchesAnyRegexFrom(str, regexArray, at) ==
  IF at > Len(regexArray) THEN FALSE
  ELSE IF MatchString(regexArray[at], str) THEN TRUE
  ELSE MatchesAnyRegexFrom(str, regexArray, at + 1)

MatchesAnyRegex(str, regexArray) == MatchesAnyRegexFrom(str, regexArray, 1)

\* isNoisy of key k of header h (h1 in the first loop, h2 in the second)
IsNoisy(h, k, noise) ==
  LET isHeaderNoisy == "header" \in DOMAIN noise
      inNoise == k \in DOMAIN noise
      isNoisy == IF inNoise /\ Len(noise[k]) # 0
                   THEN MatchesAnyRegex(h[k][1], noise[k])
                   ELSE inNoise
  IN isNoisy \/ isHeaderNoisy

\* checkKey: no record of res has this key
checkKey(res, key) == \A r \in res : r.key # key

\* variant: no length check, the values of h1 need only be the first of h2
ExpectedKeyMatches_PrefixSuffices(h1, h2, k, noise) ==
  \/ IsNoisy(h1, k, noise)
  \/ /\ k \in DOMAIN h2
     /\ Len(h1[k]) <= Len(h2[k])
     /\ \A at \in 1..Len(h1[k]) : h2[k][at] = h1[k][at]

\* variant: a key with regular expressions must match one of them
ExpectedKeyMatches_RegexRequired(h1, h2, k, noise) ==
  IF k \in DOMAIN noise /\ Len(noise[k]) # 0
    THEN MatchesAnyRegex(h1[k][1], noise[k])
    ELSE \/ IsNoisy(h1, k, noise)
         \/ /\ k \in DOMAIN h2
            /\ h1[k] = h2[k]

\* one iteration of the loop over h1: TRUE unless it sets match = false
ExpectedKeyMatches(h1, h2, k, noise) ==
  \/ IsNoisy(h1, k, noise)
  \/ /\ k \in DOMAIN h2
     /\ Len(h1[k]) = Len(h2[k])
     /\ \A at \in 1..Len(h1[k]) : h2[k][at] = h1[k][at]

\* *res after the loop over h1: one record for each key, the first one the
\* iteration appends
ResAfterExpected(h1, h2, res, noise) ==
  res \cup {[key |-> k, normal |-> ExpectedKeyMatches(h1, h2, k, noise)] :
              k \in {k \in DOMAIN h1 : checkKey(res, k)}}

\* variant: a key of h2 that h1 lacks is let through
ActualKeyMatches_ExtraAllowed(h1, h2, res, k, noise) == TRUE

\* one iteration of the loop over h2, res holding the records so far
ActualKeyMatches(h1, h2, res, k, noise) ==
  IF IsNoisy(h2, k, noise) /\ checkKey(res, k) THEN TRUE
  ELSE k \in DOMAIN h1

\* the record an iteration of the loop over h2 appends, if any
ResOfActual(h1, h2, res, k, noise) ==
  IF ~checkKey(res, k) THEN {}
  ELSE IF IsNoisy(h2, k, noise) THEN {[key |-> k, normal |-> TRUE]}
  ELSE IF k \notin DOMAIN h1 THEN {[key |-> k, normal |-> FALSE]}
  ELSE {}

\* CompareHeaders with *res = res on entry. The two loops visit the keys in
\* the order of the map iteration; match is only ever set to false and the
\* records are kept as a set, so the order does not show.
CompareHeaders(h1, h2, res, noise) ==
  LET res1 == ResAfterExpected(h1, h2, res, noise) IN
  [match |-> /\ \A k \in DOMAIN h1 : ExpectedKeyMatches(h1, h2, k, noise)
             /\ \A k \in DOMAIN h2 : ActualKeyMatches(h1, h2, res1, k, noise),
   res |-> res1 \cup UNION {ResOfActual(h1, h2, res1, k, noise) : k \in DOMAIN h2}]

\* a call CompareHeaders(h1, h2, &res, noise) with an empty res
Headers_Compare ==
  /\ hdrResult = << >>
  /\ hdrResult' = <<CompareHeaders(hdrExpected, hdrActual, {}, hdrNoise)>>
  /\ UNCHANGED <<hdrExpected, hdrActual, hdrNoise>>
  /\ UNCHANGED nonHeaderVars

HeadersInit ==
  /\ ReplayIdle
  /\ FilterIdle
  /\ SortIdle
  /\ NewFactory
  /\ MongoIdle
  /\ GrpcIdle
  /\ RecorderIdle
  /\ FlattenIdle
  /\ hdrExpected \in Headers
  /\ hdrActual \in Headers
  /\ hdrNoise \in NoiseMaps
  /\ hdrResult = << >>

HeadersSpec == HeadersInit /\ [][Headers_Compare]_vars

\* ------------------------------------------------ Flatten
\* a decoded JSON value is [kind, v]: nil, a bool, a float64, a string,
\* a map[string]interface{} (v: key -> value) or a []interface{} (v: list)
Leaves ==
  {[kind |-> "nil", v |-> ""], [kind |-> "bool", v |-> TRUE],
   [kind |-> "float", v |-> 1], [kind |-> "string", v |-> "x"]}

JsonKeys == {"a", "b", "a.b"}

MapsOver(keys, vals) ==
  {[kind |-> "map", v |-> f] : f \in UNION {[D -> vals] : D \in SUBSET keys}}

SlicesOver(vals) ==
  {[kind |-> "slice", v |-> f] : f \in UNION {[1..len -> vals] : len \in 0..MaxElems}}

\* maps in flat form: every key a path, every value a leaf
FlatMaps == MapsOver(JsonKeys, Leaves)

\* the values Flatten is called with: leaves, flat maps, maps of maps (their
\* paths can coincide with a dotted key) and arrays of leaves and small maps
JsonValues ==
  Leaves
    \cup FlatMaps
    \cup MapsOver({"a", "a.b"}, Leaves \cup MapsOver({"b"}, Leaves))
    \cup SlicesOver({[kind |-> "float", v |-> 1], [kind |-> "string", v |-> "x"]}
                      \cup MapsOver({"a", "b"}, {[kind |-> "float", v |-> 1],
                                                 [kind |-> "string", v |-> "x"]}))

\* strconv.FormatBool
FormatBool(b) == IF b THEN "true" ELSE "false"

\* strconv.FormatFloat(x, 'E', -1, 64) of a one-digit number: 1 is "1E+00"
FormatFloat(x) == ToString(x) \o "E+00"

\* variant: the child's key is always appended after a dot
FlatKey_AlwaysDotted(k, nk) == k \o "." \o nk

\* fk: the key k of the map, followed by a dot and the child's key nk if any
FlatKey(k, nk) == IF nk # "" THEN k \o "." \o nk ELSE k

\* the loop over nm for the key k of a map: o[fk] = nv
AssignAll(o, k, nm) ==
  LET new == {FlatKey(k, nk) : nk \in DOMAIN nm} IN
  [fk \in DOMAIN o \cup new |->
     IF fk \in new THEN nm[CHOOSE nk \in DOMAIN nm : FlatKey(k, nk) = fk]
     ELSE o[fk]]

\* the loop over nm for an element of a slice: append to o[nk] or set it
AppendAll(o, nm) ==
  [nk \in DOMAIN o \cup DOMAIN nm |->
     IF nk \notin DOMAIN nm THEN o[nk]
     ELSE IF nk \in DOMAIN o THEN o[nk] \o nm[nk]
     ELSE nm[nk]]

\* the orders in which a range statement can visit the keys of a map
Orders(D) ==
  {ord \in [1..Cardinality(D) -> D] :
     \A p, q \in 1..Cardinality(D) : p # q => ord[p] # ord[q]}

\* for k, v := range m, the keys visited in the order ord; nms[k] is Flatten(v)
RECURSIVE MapLoop(_, _, _, _)
MapLoop(ord, nms, at, o) ==
  IF at > Len(ord) THEN o
  ELSE MapLoop(ord, nms, at + 1, AssignAll(o, ord[at], nms[ord[at]]))

\* for _, av := range child; nms[at] is Flatten(av)
RECURSIVE SliceLoop(_, _, _)
SliceLoop(nms, at, o) ==
  IF at > Len(nms) THEN o
  ELSE SliceLoop(nms, at + 1, AppendAll(o, nms[at]))

\* the maps Flatten(j) can return: one for each order of the map iterations
RECURSIVE Flatten(_)
Flatten(j) ==
  IF j.kind = "nil" THEN {"" :> <<"">>}
  ELSE IF j.kind = "bool" THEN {"" :> <<FormatBool(j.v)>>}
  ELSE IF j.kind = "float" THEN {"" :> <<FormatFloat(j.v)>>}
  ELSE IF j.kind = "string" THEN {"" :> <<j.v>>}
  ELSE
    LET outs == [k \in DOMAIN j.v |-> Flatten(j.v[k])]
        picks == {nms \in [DOMAIN j.v -> UNION {outs[k] : k \in DOMAIN j.v}] :
                    \A k \in DOMAIN j.v : nms[k] \in outs[k]}
    IN IF j.kind = "map"
         THEN {MapLoop(ord, nms, 1, EmptyMap) :
                 ord \in Orders(DOMAIN j.v), nms \in picks}
         ELSE {SliceLoop(nms, 1, EmptyMap) : nms \in picks}

\* a call Flatten(j)
Flatten_Call ==
  /\ flatOutput = << >>
  /\ \E o \in Flatten(flatInput) : flatOutput' = <<o>>
  /\ UNCHANGED flatInput
  /\ UNCHANGED nonFlattenVars

FlattenInit ==
  /\ ReplayIdle
  /\ FilterIdle
  /\ SortIdle
  /\ NewFactory
  /\ MongoIdle
  /\ GrpcIdle
  /\ RecorderIdle
  /\ HeadersIdle
  /\ flatInput \in JsonValues
  /\ flatOutput = << >>

FlattenSpec == FlattenInit /\ [][Flatten_Call]_vars

\* ------------------------------------------------ encodeGrpc
\* destConn.Write(reqBuf): the client preface goes to the server, or the
\* write fails and encodeGrpc returns the error; the deferred function
\* closes destConn on every return
Grpc_WritePreface ==
  /\ grpcPc = "idle"
  /\ \/ /\ prefaceSent' = TRUE
        /\ grpcPc' = "go1"
        /\ UNCHANGED <<grpcRet, destConn>>
     \/ /\ grpcPc' = "returned"
        /\ grpcRet' = "err"
        /\ destConn' = "closed"
        /\ UNCHANGED prefaceSent
  /\ UNCHANGED transfers
  /\ UNCHANGED nonGrpcVars

\* g.Go(func() error {...}): the task is started and encodeGrpc goes on;
\* first the client-to-server task, then the server-to-client task
Grpc_Go ==
  /\ grpcPc \in {"go1", "go2"}
  /\ LET t == IF grpcPc = "go1" THEN "clientToServer" ELSE "serverToClient" IN
     transfers' = [transfers EXCEPT ![t].st = "running"]
  /\ grpcPc' = IF grpcPc = "go1" THEN "go2" ELSE "return"
  /\ UNCHANGED <<grpcRet, destConn, prefaceSent>>
  /\ UNCHANGED nonGrpcVars

\* return nil, with the deferred destConn.Close()
Grpc_Return ==
  /\ grpcPc = "return"
  /\ grpcPc' = "returned"
  /\ grpcRet' = "nil"
  /\ destConn' = "closed"
  /\ UNCHANGED <<prefaceSent, transfers>>
  /\ UNCHANGED nonGrpcVars

\* transferFrame passes one frame on between clientConn and destConn
TransferFrame_Frame(t) ==
  /\ transfers[t].st = "running"
  /\ transfers[t].frames < MaxFrames
  /\ destConn = "open"
  /\ transfers' = [transfers EXCEPT ![t].frames = @ + 1]
  /\ UNCHANGED <<grpcPc, grpcRet, destConn, prefaceSent>>
  /\ UNCHANGED nonGrpcVars

\* transferFrame returns nil, io.EOF or another error; the client-to-server
\* task returns nil for io.EOF, the server-to-client task returns err as it is
TransferFrame_Return(t) ==
  /\ transfers[t].st = "running"
  /\ \E e \in {"nil", "EOF", "err"} :
       transfers' = [transfers EXCEPT
                       ![t].st = "returned",
                       ![t].err = IF t = "clientToServer" /\ e = "EOF" THEN "nil" ELSE e]
  /\ UNCHANGED <<grpcPc, grpcRet, destConn, prefaceSent>>
  /\ UNCHANGED nonGrpcVars

GrpcInit ==
  /\ ReplayIdle
  /\ OthersIdle

GrpcSpec ==
  GrpcInit /\ [][\/ Grpc_WritePreface
                 \/ Grpc_Go
                 \/ Grpc_Return
                 \/ \E t \in TransferTasks : TransferFrame_Frame(t)
                 \/ \E t \in TransferTasks : TransferFrame_Return(t)]_vars

\* ------------------------------------------------ recordMessage, concurrent calls
\* the locals after the request at position k was handled for the element
\* at position `at` of the range: the next request, the next element, or
\* the end of both loops
AfterRequest(r) ==
  IF r.k < Len(r.requests) THEN [r EXCEPT !.pc = "loop", !.k = @ + 1]
  ELSE IF r.at < Len(r.snapshot) THEN [r EXCEPT !.pc = "loop", !.at = @ + 1, !.k = 1]
  ELSE [r EXCEPT !.pc = "send"]

\* connection c calls recordMessage: shouldRecordCalls := true, isHeartBeat,
\* and for a heartbeat the range expression reads configRequests once
Rec_Call(c) ==
  /\ recorders[c].pc = "idle"
  /\ \E mongoRequests \in RequestLists, heartbeat \in BOOLEAN :
       recorders' = [recorders EXCEPT ![c] =
                       [pc |-> IF heartbeat THEN "loop" ELSE "send",
                        requests |-> mongoRequests,
                        heartbeat |-> heartbeat,
                        snapshot |-> IF heartbeat THEN configRequests ELSE << >>,
                        at |-> 1, k |-> 1, shouldRecordCalls |-> TRUE, old |-> << >>]]
  /\ UNCHANGED <<sentMocks, mongoVars>>
  /\ UNCHANGED nonRecorderVars

\* the switch for req and v: on equality shouldRecordCalls = false and the
\* break leaves the switch; otherwise append(configRequests, ...) is
\* evaluated, which reads configRequests
Rec_Compare(c) ==
  LET r == recorders[c] IN
  /\ r.pc = "loop"
  /\ recorders' = [recorders EXCEPT ![c] =
       IF r.requests[r.k] = r.snapshot[r.at]
         THEN AfterRequest([r EXCEPT !.shouldRecordCalls = FALSE])
         ELSE [r EXCEPT !.pc = "store", !.old = configRequests]]
  /\ UNCHANGED <<sentMocks, mongoVars>>
  /\ UNCHANGED nonRecorderVars

\* configRequests = <the appended slice>: the assignment of the append
Rec_Store(c) ==
  LET r == recorders[c] IN
  /\ r.pc = "store"
  /\ configRequests' = Append(r.old, r.requests[r.k])
  /\ recorders' = [recorders EXCEPT ![c] = AfterRequest(r)]
  /\ UNCHANGED <<sentMocks, seenHeartbeats, lastMessage, messages>>
  /\ UNCHANGED nonRecorderVars

\* if shouldRecordCalls { mocks <- mongoMock }, and the call returns
Rec_Send(c) ==
  LET r == recorders[c] IN
  /\ r.pc = "send"
  /\ sentMocks' = IF r.shouldRecordCalls
                    THEN Append(sentMocks,
                                [by |-> c, requests |-> r.requests,
                                 type |-> IF r.heartbeat THEN "config" ELSE ""])
                    ELSE sentMocks
  /\ recorders' = [recorders EXCEPT ![c].pc = "done"]
  /\ UNCHANGED mongoVars
  /\ UNCHANGED nonRecorderVars

RecorderInit ==
  /\ ReplayIdle
  /\ OthersIdle

RecorderSpec ==
  RecorderInit /\ [][\E c \in Recorders : \/ Rec_Call(c)
                                          \/ Rec_Compare(c)
                                          \/ Rec_Store(c)
                                          \/ Rec_Send(c)]_vars

\* ============================================================ properties
\* a step inside one RunTestSet call (not the call itself, not its frame
\* being dropped)
SameCall == pc \notin {"idle", "load"} /\ pc' \notin {"idle", "load"}

TerminalStatuses ==
  {TestSetStatusFailed, TestSetStatusAppHalted, TestSetStatusInternalErr,
   TestSetStatusFaultUserApp, TestSetStatusUserAbort}

\* C1: in RunTestSet the status is write-once: once it holds a terminal
\* value (failed, appHalted, internalErr, faultUserApp, userAbort) no later
\* step of the same call changes it, and the final report and the returned
\* status carry that value.
C1_StatusWriteOnce ==
  /\ [][(SameCall /\ testSetStatus \in TerminalStatuses)
          => testSetStatus' = testSetStatus]_vars
  /\ []((finalReport # NoReport /\ testSetStatus \in TerminalStatuses)
          => finalReport[1].report.status = testSetStatus)
  /\ []((pc = "returned" /\ testSetStatus \in TerminalStatuses)
          => rtsRet[1].status = testSetStatus)

\* C2: after the test loop has received the watcher's signal on
\* exitLoopChan, no further test case has its mocks set, its request
\* simulated or its result persisted in that RunTestSet call.
C2_LoopExitsOnSignal ==
  [][(SameCall /\ sigRecv)
       => /\ mocksSet' = mocksSet
          /\ simulated' = simulated
          /\ persisted' = persisted]_vars

\* C3: when the application exits with appStopped/unexpected after k < n
\* cases have completed and the test loop receives the watcher's signal for
\* it, the final report has status appHalted, Total = n and
\* Success + Failure = k.
C3_AppCrashMidSet ==
  (/\ finalReport # NoReport
   /\ finalReport[1].out = "ok"
   /\ crashAt >= 0
   /\ crashAt < n
   /\ sigRecv
   /\ firstSignal \in {ErrAppStopped, ErrUnExpected})
  => /\ finalReport[1].report.status = TestSetStatusAppHalted
     /\ finalReport[1].report.total = n
     /\ finalReport[1].report.success + finalReport[1].report.failure = crashAt

\* the status each signal is to resolve to
ExpectedStatusOf(sig) ==
  IF sig = ErrCommandError THEN TestSetStatusFaultUserApp
  ELSE IF sig \in {ErrAppStopped, ErrUnExpected} THEN TestSetStatusAppHalted
  ELSE IF sig = ErrInternal THEN TestSetStatusInternalErr
  ELSE IF sig = "mockErr" THEN TestSetStatusFailed
  ELSE IF sig = "ctxDone" THEN TestSetStatusUserAbort
  ELSE "unspecified"

\* C4: the watcher maps the first signal it observes to a status:
\* commandError -> faultUserApp, appStopped/unexpected -> appHalted,
\* internal -> internalErr, mock error -> failed, cancellation -> userAbort;
\* only that first signal is mapped and the mapped value is never running.
C4_WatcherMapping ==
  /\ [](firstSignal = "none" => testSetStatusByErrChan = TestSetStatusRunning)
  /\ [](firstSignal # "none"
          => /\ testSetStatusByErrChan = ExpectedStatusOf(firstSignal)
             /\ testSetStatusByErrChan \in TerminalStatuses)
  /\ [][(SameCall /\ firstSignal # "none")
          => /\ firstSignal' = firstSignal
             /\ testSetStatusByErrChan' = testSetStatusByErrChan]_vars

C4_Witness ==
  /\ watcherPc = "sending"
  /\ firstSignal = ErrCommandError
  /\ testSetStatusByErrChan = TestSetStatusFaultUserApp
  /\ mockErr = "pending"
  /\ ctxDone

\* C5: once the application has failed during a test set (commandError,
\* appStopped, unexpected or internal), Start calls RunTestSet for no later
\* test set.
C5_AppFailureAborts ==
  [][appFailed => setIdx' = setIdx]_vars

\* the current call has taken no error branch and received no exit signal
NoErrorInSet ==
  ~sigRecv /\ testSetStatus \in {TestSetStatusPassed, TestSetStatusFailed}

\* C6: a failed comparison (with no error signal and no internal error)
\* marks the set failed, the remaining test cases are still executed in
\* order, a later passing case never turns the set back to passed, and
\* Start goes on to the next test set.
C6_FailedCompareContinues ==
  /\ []((pc \in {"select", "mocks"} /\ NoErrorInSet)
          => /\ mocksSet = i - 1 /\ simulated = i - 1 /\ persisted = i - 1
             /\ (failure > 0 => testSetStatus = TestSetStatusFailed))
  /\ []((pc = "results" /\ NoErrorInSet /\ failure > 0)
          => /\ testSetStatus = TestSetStatusFailed
             /\ mocksSet = n /\ simulated = n /\ persisted = n
             /\ success + failure = n)
  /\ [][(SameCall /\ testSetStatus = TestSetStatusFailed)
          => testSetStatus' # TestSetStatusPassed]_vars
  /\ [][(startPc = "inSet" /\ startPc' # "inSet"
           /\ ~rtsRet[1].err /\ rtsRet[1].status = TestSetStatusFailed)
          => startPc' = "loop" /\ ~abortTestRun']_vars
  /\ []((startPc = "done" /\ startRet = "nil"
           /\ \A k \in DOMAIN setStatuses :
                /\ ~setStatuses[k].err
                /\ setStatuses[k].status \in {TestSetStatusPassed, TestSetStatusFailed})
          => Len(setStatuses) = NumSets)

C6_Witness ==
  /\ setIdx = 2
  /\ setStatuses[1].status = TestSetStatusFailed
  /\ pc = "results"
  /\ NoErrorInSet
  /\ failure > 0
  /\ success > 0
  /\ testSetStatus = TestSetStatusFailed

\* C7 as stated: every RunTestSet call that has inserted its initial report
\* has, when it returns, inserted a final report with a terminal status and
\* Total = number of test cases.
C7_FinalReportAlwaysWritten ==
  (pc = "returned" /\ initReport)
  => /\ finalReport # NoReport
     /\ finalReport[1].out = "ok"
     /\ finalReport[1].report.status # TestSetStatusRunning
     /\ finalReport[1].report.total = n

\* C7 amended: every RunTestSet call that has inserted its initial report
\* eventually calls the final InsertReport with a report whose status is
\* terminal (never running) and whose Total is the number of test cases,
\* also when the root context is cancelled during the test loop; that call
\* never fails because of cancellation, and when it fails on its own
\* RunTestSet returns internalErr with an error.
C7_FinalReportAttempted ==
  /\ (initReport ~> finalReport # NoReport)
  /\ [](finalReport # NoReport
          => /\ finalReport[1].report.status \in TerminalStatuses \cup {TestSetStatusPassed}
             /\ finalReport[1].report.total = n
             /\ finalReport[1].out # "canceled"
             /\ initReport)
  /\ []((pc = "returned" /\ initReport)
          => /\ finalReport # NoReport
             /\ (finalReport[1].out # "ok"
                   => rtsRet[1] = [status |-> TestSetStatusInternalErr, err |-> TRUE]))

C7_Witness ==
  /\ finalReport # NoReport
  /\ finalReport[1].out = "ok"
  /\ finalReport[1].report.status = TestSetStatusUserAbort
  /\ ctxDone
  /\ sigRecv

\* C8: the verdict Start passes to the summary is success iff every test
\* set of the run ended in passed; one failed set makes it failure whatever
\* the later sets return.
C8_VerdictIffAllPassed ==
  summary # << >>
  => /\ Len(setStatuses) = NumSets
     /\ summary[1] = (\A k \in DOMAIN setStatuses :
                        /\ ~setStatuses[k].err
                        /\ setStatuses[k].status = TestSetStatusPassed)

C8_Witness ==
  /\ summary = <<FALSE>>
  /\ setStatuses[1].status = TestSetStatusFailed
  /\ setStatuses[NumSets].status = TestSetStatusPassed

\* Start has ended the run early
EndedEarly == startRet = "err" \/ abortTestRun

\* C9: on each path where Start ends the run early while the context is not
\* yet cancelled, the deferred Stop is called with a non-empty reason and
\* the root context is cancelled.
C9_AbortStops ==
  (startPc = "done" /\ EndedEarly /\ stopLog # << >>)
  => /\ stopLog[1].reason # ""
     /\ stopLog[1].ret = "nil"
     /\ ctxDone

\* the calls of Stop the claim is about: a logger and a non-empty reason
GoodStop(k) == stopLog[k].logger /\ stopLog[k].reason # ""

\* C10: Stop is idempotent: with a logger and the same non-empty reason,
\* interleaved with a signal in any order, the root context goes from live
\* to cancelled exactly once, it is cancelled after the first successful
\* Stop, and a second such Stop changes no state of the context.
C10_StopIdempotent ==
  /\ [](cancelCount <= 1)
  /\ []((\E k \in DOMAIN stopLog : GoodStop(k) /\ stopLog[k].ret = "nil")
          => ctxDone /\ cancelCount = 1)
  /\ [][ctxDone => ctxDone']_vars
  /\ [][(/\ Len(stopLog') = Len(stopLog) + 1
         /\ stopLog'[Len(stopLog')].logger
         /\ \E k \in DOMAIN stopLog :
              /\ stopLog[k].ret = "nil"
              /\ stopLog[k].reason = stopLog'[Len(stopLog')].reason)
          => /\ UNCHANGED <<ctxCreated, cancelSet, ctxDone, cancelCount, sigs>>
             /\ stopLog'[Len(stopLog')].ret = "nil"]_vars

C10_Witness ==
  /\ Len(stopLog) >= 2
  /\ \E j, k \in DOMAIN stopLog :
       /\ j < k
       /\ stopLog[j].ret = "nil"
       /\ stopLog[k].ret = "nil"
       /\ stopLog[j].reason = stopLog[k].reason
  /\ sigs = "done"
  /\ cancelCount = 1

\* the k-th call of Stop had no logger, no registered cancel function or an
\* empty reason
LastStopRefused ==
  \/ ~stopLog'[Len(stopLog')].logger
  \/ ~cancelSet
  \/ stopLog'[Len(stopLog')].reason = ""

\* C11: a call of Stop with a nil logger, with no cancel function
\* registered, or with the empty reason returns an error and does not cancel
\* the root context; every other call returns nil and the context is
\* cancelled when it returns.
C11_StopErrors ==
  [][Len(stopLog') = Len(stopLog) + 1
       => IF LastStopRefused
            THEN /\ stopLog'[Len(stopLog')].ret # "nil"
                 /\ ctxDone' = ctxDone
                 /\ cancelCount' = cancelCount
            ELSE /\ stopLog'[Len(stopLog')].ret = "nil"
                 /\ ctxDone']_vars

\* the three refusals and an accepted call have all happened; the refusals
\* left the context live, the accepted call cancelled it
C11_Witness ==
  /\ Len(stopLog) = 4
  /\ stopLog[1].ret = "cancel function is not set"
  /\ stopLog[2].ret = "logger is not set"
  /\ stopLog[3].ret = "cannot stop keploy without a reason"
  /\ stopLog[4].ret = "nil"
  /\ sigs = "waiting"
  /\ ctxDone
  /\ cancelCount = 1

\* C12: at most one application task is alive at a time: on every return
\* path of RunTestSet the application task it started has already finished,
\* so the next test set's application never overlaps it.
C12_AppFinishedOnEveryReturn ==
  pc = "returned" => appPc \in {"none", "done"}

\* what FilterTcsMocks returned
Returned == filtered[1]

HasBothTimestamps(mock) ==
  mock.ReqTimestampMock # ZeroTime /\ mock.ResTimestampMock # ZeroTime

\* C13 as stated: for every test case, also one with a missing timestamp,
\* each returned mock carrying both timestamps lies strictly inside the
\* window of the test case.
C13_FilteredInsideWindow ==
  filtered # << >>
    => \A k \in DOMAIN Returned :
         HasBothTimestamps(Returned[k])
           => /\ tcs[1].HttpReq < Returned[k].ReqTimestampMock
              /\ Returned[k].ResTimestampMock < tcs[1].HttpResp

\* C13, amended: for a test case carrying both timestamps, each returned
\* mock carrying both timestamps lies strictly inside the window; for a test
\* case whose request or response timestamp is missing the mock list is
\* returned as it is.
C13_FilteredInsideWindowOrAll ==
  filtered # << >>
    => IF tcs[1].HttpReq = ZeroTime \/ tcs[1].HttpResp = ZeroTime
         THEN Returned = mocks
         ELSE \A k \in DOMAIN Returned :
                HasBothTimestamps(Returned[k])
                  => /\ tcs[1].HttpReq < Returned[k].ReqTimestampMock
                     /\ Returned[k].ResTimestampMock < tcs[1].HttpResp

\* a test case with both timestamps, a mock inside its window kept and a
\* mock on the bound of the window dropped
C13_Witness ==
  /\ filtered # << >>
  /\ tcs[1] = [HttpReq |-> 1, HttpResp |-> 3]
  /\ Len(mocks) = 2
  /\ mocks[1].ReqTimestampMock = 1 /\ mocks[1].ResTimestampMock = 2
  /\ mocks[2].ReqTimestampMock = 2 /\ mocks[2].ResTimestampMock = 2
  /\ Returned = <<mocks[2]>>

\* the mocks of m the filtered view keeps for tc
Kept(tc, mock) ==
  \/ ~HasBothTimestamps(mock)
  \/ (tc.HttpReq < mock.ReqTimestampMock /\ mock.ResTimestampMock < tc.HttpResp)

\* the positions of m that are kept, in increasing order
RECURSIVE KeptPositions(_, _, _)
KeptPositions(tc, m, k) ==
  IF k > Len(m) THEN << >>
  ELSE IF Kept(tc, m[k]) THEN <<k>> \o KeptPositions(tc, m, k + 1)
  ELSE KeptPositions(tc, m, k + 1)

\* C14: for a test case with both timestamps the returned list is, in input
\* order, exactly the mocks that lack a timestamp or lie strictly inside the
\* window, whatever their version.
C14_FilteredExactly ==
  (filtered # << >> /\ tcs[1].HttpReq # ZeroTime /\ tcs[1].HttpResp # ZeroTime)
    => LET pos == KeptPositions(tcs[1], mocks, 1) IN
       /\ Len(Returned) = Len(pos)
       /\ \A k \in DOMAIN pos : Returned[k] = mocks[pos[k]]

\* window (1,3): a mock inside it and a mock without timestamps are
\* returned in that order, the two of different versions
C14_Witness ==
  /\ filtered # << >>
  /\ tcs[1] = [HttpReq |-> 1, HttpResp |-> 3]
  /\ Len(mocks) = 2
  /\ mocks[1].ReqTimestampMock = 2 /\ mocks[1].ResTimestampMock = 2
  /\ mocks[2].ReqTimestampMock = 0 /\ mocks[2].ResTimestampMock = 0
  /\ mocks[1].Version # mocks[2].Version
  /\ Returned = mocks

\* the number a name ends with
SuffixOf(name) == LET parts == Split(name) IN Atoi(parts[Len(parts)]).val

\* the name without its last part
PrefixOf(name) == LET parts == Split(name) IN SubSeq(parts, 1, Len(parts) - 1)

\* C15: the order used for the summary is the natural order on the trailing
\* number: of two names with the same prefix the one with the smaller number
\* comes first, so set-1, set-2, set-10.
C15_NaturalSort ==
  sortedNames # << >>
    => \A x, y \in DOMAIN sortedNames[1] :
         (/\ PrefixOf(sortedNames[1][x]) = PrefixOf(sortedNames[1][y])
          /\ SuffixOf(sortedNames[1][x]) < SuffixOf(sortedNames[1][y]))
           => x < y

\* caller g returns from GetOrCreate in this step
GOC_Returns(g) == gPc[g] # "idle" /\ gPc'[g] = "idle"

\* C16: GetOrCreate is atomic.  A call returns the tracker registered for
\* its ConnID when it returns; if one was registered it is that one and the
\* registry is unchanged, otherwise exactly one fresh tracker is inserted.
\* While a ConnID stays registered its tracker is never replaced, and no
\* tracker is registered twice.
C16_GetOrCreateAtomic ==
  /\ [][\A g \in Callers :
          GOC_Returns(g) =>
            /\ gArg[g] \in DOMAIN connections'
            /\ connections'[gArg[g]].id = gRet'[1].tracker
            /\ gRet'[1].conn = gArg[g]
            /\ IF gArg[g] \in DOMAIN connections
                 THEN connections' = connections /\ nextTracker' = nextTracker
                 ELSE /\ gRet'[1].tracker = nextTracker
                      /\ nextTracker' = nextTracker + 1
                      /\ DOMAIN connections' = DOMAIN connections \cup {gArg[g]}
                      /\ \A c \in DOMAIN connections :
                           connections'[c] = connections[c]]_vars
  /\ [][\A c \in DOMAIN connections \cap DOMAIN connections' :
          connections'[c].id = connections[c].id]_vars
  /\ [](\A c, d \in DOMAIN connections :
          c # d => connections[c].id # connections[d].id)

\* a call found the tracker an earlier call had inserted, after a sweep had
\* run over it, and returned it while another caller was waiting for the lock
C16_Witness ==
  /\ gRet # << >>
  /\ gRet[1].ok
  /\ gRet[1].conn \in DOMAIN connections
  /\ connections[gRet[1].conn].id = gRet[1].tracker
  /\ sweeps >= 1
  /\ sweepPc = "idle"
  /\ nextTracker = 2

\* a pass of ProcessActiveTrackers runs to completion in this step
PAT_Completes == sweepPc = "range" /\ toVisit = {} /\ sweepPc' = "idle"

\* C17: a completed exchange yields exactly one TestCase: the sweep that
\* sends the TestCase of a complete tracker removes the tracker from the
\* registry, and no second TestCase is emitted for it by later passes.
C17_ExactlyOneTestCase ==
  /\ [](\A id \in DOMAIN emitted : emitted[id] <= 1)
  /\ [][PAT_Completes
          => \A c \in DOMAIN connections' :
               emitted[connections'[c].id] = 0]_vars

\* the range loop handles tracker c in this step
PAT_Visits(c) ==
  sweepPc = "range" /\ ~sweepCtxDone /\ c \in toVisit /\ c \notin toVisit'

\* C18: a tracker that is not complete and is inactive when a pass looks at
\* it is marked, and removed when that pass completes, without a TestCase;
\* a tracker neither complete nor inactive is left as it is; a completing
\* pass removes the marked trackers and no other.
C18_InactivitySweep ==
  /\ [][\A c \in DOMAIN connections :
          (PAT_Visits(c) /\ ~connections[c].complete)
            => /\ emitted' = emitted
               /\ connections' = connections
               /\ sweepPc' = "range"
               /\ IF connections[c].inactive
                    THEN trackersToDelete' = trackersToDelete \cup {c}
                    ELSE trackersToDelete' = trackersToDelete]_vars
  /\ [][PAT_Completes
          => /\ DOMAIN connections' = DOMAIN connections \ trackersToDelete
             /\ \A c \in DOMAIN connections' : connections'[c] = connections[c]
             /\ \A c \in trackersToDelete : emitted[connections[c].id] = 0
             /\ emitted' = emitted]_vars

\* a completed pass has deleted an inactive tracker and left a live one
C18_Witness ==
  /\ sweepPc = "idle"
  /\ sweeps = 1
  /\ nextTracker = 3
  /\ \E c \in ConnIDs :
       /\ DOMAIN connections = {c}
       /\ ~connections[c].complete
       /\ ~connections[c].inactive
       /\ emitted = <<0, 0>>

\* C19: a tracker reported complete whose buffers are empty or do not parse
\* never produces a TestCase, and the sweep that looks at it marks it for
\* deletion.
C19_UnparseableDiscarded ==
  /\ [](\A c \in DOMAIN connections :
          (connections[c].complete /\ connections[c].bufs # "ok")
            => emitted[connections[c].id] = 0)
  /\ [][\A c \in DOMAIN connections :
          (/\ PAT_Visits(c)
           /\ connections[c].complete
           /\ connections[c].bufs \in {"empty", "badRequest", "badResponse"})
            => c \in trackersToDelete']_vars

\* a TestCase is received from the output channel in this step
TestCaseSent == \E id \in DOMAIN emitted : emitted'[id] # emitted[id]

\* C20: the sweep respects cancellation: once the context given to
\* ProcessActiveTrackers is cancelled no further TestCase is sent on the
\* output channel, also when the sweep was already waiting to send.
C20_NoSendAfterCancel ==
  [][sweepCtxDone => ~TestCaseSent]_vars

C22_HeartbeatExclusion ==
  (lastMessage # << >> /\ lastMessage[1].heartbeat)
    => /\ lastMessage[1].first => lastMessage[1].mock = "config"
       /\ ~lastMessage[1].first => lastMessage[1].mock = "none"

\* the call of CompareHeaders has returned
Compared == hdrResult # << >>

\* C23: if CompareHeaders(a, b, noise) passes then CompareHeaders(b, a, noise)
\* passes, for every noise policy, regex lists included.
C23_SymmetricOnPass ==
  (Compared /\ hdrResult[1].match)
    => CompareHeaders(hdrActual, hdrExpected, {}, hdrNoise).match

\* the noise paths that can be added to hdrNoise: a key it does not have yet,
\* with an empty list or a list of regular expressions, or the key "header"
AddedPaths ==
  {nm \in NoiseMaps : /\ Cardinality(DOMAIN nm) = 1
                      /\ DOMAIN nm \cap DOMAIN hdrNoise = {}}

\* C24: adding one more path to the noise policy never turns a passing
\* CompareHeaders result into a failing one.
C24_NoiseMonotone ==
  (Compared /\ hdrResult[1].match)
    => \A added \in AddedPaths :
         CompareHeaders(hdrExpected, hdrActual, {}, hdrNoise @@ added).match

\* a passing comparison that rests on a matching regular expression of one
\* key, while the other key, present on both sides, is not noise yet
C24_Witness ==
  /\ Compared
  /\ hdrResult[1].match
  /\ DOMAIN hdrNoise = {"Accept"}
  /\ hdrNoise["Accept"] = <<"z", "x">>
  /\ DOMAIN hdrExpected = HeaderKeys
  /\ DOMAIN hdrActual = HeaderKeys
  /\ hdrExpected["Accept"] # hdrActual["Accept"]

\* C30: with an empty noise policy CompareHeaders passes exactly when both
\* sides have the same keys and, for every key, value lists of equal length
\* that are equal element by element in order.
C30_EmptyNoiseExact ==
  (Compared /\ hdrNoise = EmptyMap)
    => (hdrResult[1].match
          <=> /\ DOMAIN hdrExpected = DOMAIN hdrActual
              /\ \A k \in DOMAIN hdrExpected :
                   /\ Len(hdrExpected[k]) = Len(hdrActual[k])
                   /\ \A pos \in 1..Len(hdrExpected[k]) :
                        hdrExpected[k][pos] = hdrActual[k][pos])

\* without noise, the same keys on both sides and a key whose value lists
\* differ in length only: the comparison fails
C30_Witness ==
  /\ Compared
  /\ hdrNoise = EmptyMap
  /\ ~hdrResult[1].match
  /\ DOMAIN hdrExpected = HeaderKeys
  /\ DOMAIN hdrActual = HeaderKeys
  /\ hdrExpected["Etag"] = hdrActual["Etag"]
  /\ Len(hdrExpected["Accept"]) < Len(hdrActual["Accept"])
  /\ \A pos \in 1..Len(hdrExpected["Accept"]) :
       hdrExpected["Accept"][pos] = hdrActual["Accept"][pos]

\* the regular expressions of the noise policy do not tell the two values of
\* key k apart: the first value of both sides is matched, or of neither
RegexTreatsAlike(k) ==
  MatchesAnyRegex(hdrExpected[k][1], hdrNoise[k])
    <=> MatchesAnyRegex(hdrActual[k][1], hdrNoise[k])

\* C23 (amended): a passing comparison passes with the roles swapped when
\* every key with regular expressions that both sides have is treated alike.
C23_SymmetricWhenRegexAlike ==
  (/\ Compared
   /\ hdrResult[1].match
   /\ \A k \in DOMAIN hdrExpected \cap DOMAIN hdrActual \cap DOMAIN hdrNoise :
        RegexTreatsAlike(k))
    => CompareHeaders(hdrActual, hdrExpected, {}, hdrNoise).match

\* a passing comparison of different values of a key under regular
\* expressions that match both, plus a key only one side has
C23_Witness ==
  /\ Compared
  /\ hdrResult[1].match
  /\ DOMAIN hdrNoise = HeaderKeys
  /\ hdrNoise["Accept"] = <<"z", "x">>
  /\ hdrNoise["Etag"] = <<"z", "x">>
  /\ DOMAIN hdrExpected = HeaderKeys
  /\ DOMAIN hdrActual = {"Accept"}
  /\ hdrExpected["Accept"] # hdrActual["Accept"]

\* the string a leaf is written as in a flat map
LeafString(leaf) ==
  IF leaf.kind = "nil" THEN ""
  ELSE IF leaf.kind = "bool" THEN FormatBool(leaf.v)
  ELSE IF leaf.kind = "float" THEN FormatFloat(leaf.v)
  ELSE leaf.v

\* a flattened map read as a JSON map again: every path with its one string
AsFlatMap(o) ==
  [kind |-> "map", v |-> [k \in DOMAIN o |-> [kind |-> "string", v |-> o[k][1]]]]

\* C25: Flatten of a map in flat form returns the same keys, each with the
\* one value of its leaf, and flattening the result again changes nothing.
C25_FlattenIdempotent ==
  (flatOutput # << >> /\ flatInput \in FlatMaps)
    => /\ DOMAIN flatOutput[1] = DOMAIN flatInput.v
       /\ \A k \in DOMAIN flatInput.v :
            flatOutput[1][k] = <<LeafString(flatInput.v[k])>>
       /\ Flatten(AsFlatMap(flatOutput[1])) = {flatOutput[1]}

\* a flat map with a plain key, a dotted key and leaves of different kinds
C25_Witness ==
  /\ flatOutput # << >>
  /\ flatInput \in FlatMaps
  /\ DOMAIN flatInput.v = JsonKeys
  /\ flatInput.v["a"].kind = "float"
  /\ flatInput.v["a.b"].kind = "bool"
  /\ flatInput.v["b"].kind = "nil"

\* the keys of factory.connections and the tracker registered for each
Registry == [c \in DOMAIN connections |-> connections[c].id]

\* a call of GetOrCreate is between its Lock and its return
InGetOrCreate(g) == gPc[g] \in {"locked", "insert"}

\* C26: the map is read, inserted into and deleted from with the lock held
\* only; no GetOrCreate observes or changes it while a sweep is in progress;
\* a sweep blocked in its channel send keeps the lock and every GetOrCreate
\* waits.
C26_MapSerialized ==
  /\ [](/\ Cardinality(mutex) <= 1
        /\ \A g \in Callers : InGetOrCreate(g) => g \in mutex
        /\ sweepPc # "idle" => "sweep" \in mutex)
  /\ [][Registry' # Registry
          => \/ \E g \in Callers : g \in mutex /\ gPc[g] = "insert"
             \/ "sweep" \in mutex /\ sweepPc = "range" /\ toVisit = {}]_vars
  /\ [][sweepPc # "idle"
          => /\ gPc' = gPc
             /\ gRet' = gRet
             /\ sweepPc' # "idle" => Registry' = Registry]_vars
  /\ [](sweepPc = "send"
          => /\ mutex = {"sweep"}
             /\ \A g \in Callers : ~InGetOrCreate(g)
             /\ ~ENABLED GOC_Lock)

\* the sweep is blocked in the send for a tracker that a call of GetOrCreate
\* registered; another tracker could still be made, but the lock is taken
C26_Witness ==
  /\ sweepPc = "send"
  /\ gRet # << >>
  /\ nextTracker <= MaxTrackers
  /\ \A g \in Callers : gPc[g] = "idle"
  /\ ~ENABLED GOC_Lock

\* C27: when the root context is cancelled while a test set is running, the
\* set's status becomes userAbort, Start returns nil without calling
\* RunTestSet for a later test set and without printing the summary, and the
\* deferred function does not call Stop again.
C27_CancelEndsRun ==
  cancelledInSet # 0
    => /\ setIdx = cancelledInSet
       /\ Len(setStatuses) >= cancelledInSet
            => setStatuses[cancelledInSet].status = TestSetStatusUserAbort
       /\ summary = << >>
       /\ startPc = "done" => startRet = "nil" /\ stopLog = << >>

\* C28: the test cases are taken one at a time in the order of the store.
\* The mocks are narrowed to a case and set before its request is issued,
\* the request is issued with that window installed and after the results of
\* all earlier cases were persisted, and the result of a case is persisted
\* after its request.
C28_OneCaseAtATime ==
  /\ [][SameCall => i' \in {i, i + 1}]_vars
  /\ [][(SameCall /\ mockWindow' # mockWindow)
          => /\ pc = "mocks"
             /\ mockWindow' = i
             /\ simulated = i - 1
             /\ persisted = i - 1]_vars
  /\ [][(SameCall /\ simulated' # simulated)
          => /\ pc = "simulate"
             /\ simulated' = i
             /\ mockWindow = i
             /\ persisted = i - 1]_vars
  /\ [][(SameCall /\ persisted' # persisted)
          => /\ pc = "persist"
             /\ persisted' = i
             /\ simulated = i
             /\ mockWindow = i]_vars

\* the second test case is being requested with its own window, after the
\* loop has received the exit signal, the first result persisted
C28_Witness ==
  /\ pc = "persist"
  /\ i = 2
  /\ mockWindow = 2
  /\ simulated = 2
  /\ persisted = 1
  /\ sigRecv

\* C29: every RunTestSet call eventually returns, whatever the mock
\* subsystem, the application and the root context do.
C29_RunTestSetTerminates == <>(pc = "returned")

\* ------------------------------------------------ arrays of maps
\* the arrays whose elements are all maps with at least one key
ArraysOfMaps ==
  {j \in JsonValues :
     /\ j.kind = "slice"
     /\ \A q \in DOMAIN j.v : j.v[q].kind = "map" /\ DOMAIN j.v[q].v # {}}

\* two arrays hold the same flattened elements, each as many times
SameFlattenedElements(j1, j2) ==
  /\ Len(j1.v) = Len(j2.v)
  /\ \E p \in Orders(1..Len(j1.v)) :
       \A q \in 1..Len(j1.v) : Flatten(j1.v[q]) = Flatten(j2.v[p[q]])

\* C31: an array of maps never flattens to the result of an array of maps
\* that differs from it as a multiset of flattened elements.
C31_ArraysOfMapsDistinct ==
  (flatOutput # << >> /\ flatInput \in ArraysOfMaps)
    => \A j2 \in ArraysOfMaps :
         ~SameFlattenedElements(flatInput, j2) => flatOutput[1] \notin Flatten(j2)

\* ------------------------------------------------ encodeGrpc
\* C32: the client preface is written to the destination before any frame is
\* transferred, and the destination connection is closed only when the
\* preface write failed or both transfer tasks have finished, never while a
\* transfer task is still running.
C32_DestOpenWhileActive ==
  /\ (\E t \in TransferTasks : transfers[t].st # "none") => prefaceSent
  /\ destConn = "closed"
       => \/ ~prefaceSent /\ grpcRet = "err"
          \/ \A t \in TransferTasks : transfers[t].st = "returned"

\* ------------------------------------------------ RunTestSet: its tasks at the return
\* RunTestSet has returned after its Wait and no signal arrived during the
\* call: no mock error, no failure of the application, no cancellation of
\* the root context before the return
ReturnedUndisturbed ==
  /\ pc = "returned"
  /\ ~rtsRet[1].err
  /\ mockErr = "none"
  /\ ~appFailed
  /\ cancelledInSet = 0

\* C33: when the test loop finishes before any signal arrives, also when the
\* root context is cancelled after the set has completed, the watcher never
\* sends on exitLoopChan after RunTestSet has closed it, and once RunTestSet
\* has returned no task it started is still running or blocked.
C33_NoTaskOutlivesCall ==
  ReturnedUndisturbed
    => /\ watcherPc \in {"none", "done"}
       /\ appPc \in {"none", "done"}
       /\ ~(watcherPc = "sending" /\ chanClosed)

\* C34: in every final report Success + Failure <= Total, and Success +
\* Failure is the number of test cases of the set whose TestResult
\* InsertTestCaseResult persisted: a case whose result was not persisted is
\* counted neither as passed nor as failed.
C34_CountersMatchPersisted ==
  (finalReport # NoReport /\ finalReport[1].out = "ok")
    => /\ finalReport[1].report.success + finalReport[1].report.failure
            <= finalReport[1].report.total
       /\ finalReport[1].report.success + finalReport[1].report.failure = persisted

\* ------------------------------------------------ recordMessage, concurrent calls
\* two calls are inside the append of configRequests at the same time: each
\* has read the list and not yet assigned it
AppendsOverlap ==
  \E c1, c2 \in Recorders :
    c1 # c2 /\ recorders[c1].pc = "store" /\ recorders[c2].pc = "store"

\* C35: when several connections call recordMessage concurrently, each
\* distinct heartbeat payload is sent as a Mock at most once, and no two
\* calls read and append to configRequests at the same time.
C35_ConcurrentDedupeSafe ==
  /\ \A p, q \in DOMAIN sentMocks :
       (p # q /\ sentMocks[p].type = "config" /\ sentMocks[q].type = "config")
         => sentMocks[p].requests # sentMocks[q].requests
  /\ ~AppendsOverlap
====
